---- MODULE Spec2Model ----
(***************************************************************************)
(* Model of the generalized-pruning DAG of libsbn (src/src/gp_dag.cpp):    *)
(* construction of the DAG from a collection of rooted topologies, the     *)
(* index maps, the traversal orders and the operation-vector generators.   *)
(*                                                                         *)
(* Representation.  A Bitset over T taxa is modelled by the set of the     *)
(* positions of its 1 bits, a subset of 0..T-1.  A subsplit (a Bitset of   *)
(* length 2T) is the pair <<chunk 0, chunk 1>> of such sets, and the       *)
(* concatenation a + b of two Bitsets is the concatenation of tuples, so   *)
(* that a PCSP key (length 4T) is a 4-tuple and a root subsplit            *)
(* rootsplit + ~rootsplit is a 2-tuple.  Node ids, parameter indices and   *)
(* PLV indices are the 0-based numbers of the code; a std::vector is a     *)
(* function on 0..n-1, a std::unordered_map a function on its key set.     *)
(***************************************************************************)
EXTENDS Integers, Sequences, FiniteSets, TLC

\* Largest taxon count of an input collection.
MaxTaxa == 4
\* Largest total number of leaves over the distinct topologies of an input
\* collection (taxon count times number of topologies).
MaxLeaves == 8

VARIABLES
  tree_collection,            \* the constructor's argument
  pc,                         \* position in the constructor / "built" / "failed"
  taxon_count_,
  rootsplits_,                \* vector of rootsplit Bitsets (0-based)
  parent_to_range_,           \* parent subsplit -> <<start, stop>>
  index_to_child_,            \* index -> child subsplit
  rootsplit_and_pcsp_count_,
  dag_nodes_,                 \* vector of nodes (0-based, id = position)
  subsplit_to_index_,         \* subsplit -> node id
  gpcsp_indexer_,             \* root subsplit or PCSP -> parameter index
  subsplit_to_range_,         \* parent subsplit -> <<start, stop>>
  result,                     \* the value returned by the last const method called
  beagle_instance             \* a BEAGLE instance: the calls made on it so far

vars == <<tree_collection, pc, taxon_count_, rootsplits_, parent_to_range_,
          index_to_child_, rootsplit_and_pcsp_count_, dag_nodes_,
          subsplit_to_index_, gpcsp_indexer_, subsplit_to_range_, result,
          beagle_instance>>

----------------------------------------------------------------------------
\* Generic helpers for 0-based vectors and maps.

EmptyMap == [x \in {} |-> 0]

Size(v) == Cardinality(DOMAIN v)

PushBack(v, x) == [i \in 0..Size(v) |-> IF i < Size(v) THEN v[i] ELSE x]

\* A 1-based sequence as a 0-based vector.
VectorOf(s) == [i \in 0..(Len(s) - 1) |-> s[i + 1]]

Range(f) == {f[x] : x \in DOMAIN f}

MinOf(S) == CHOOSE x \in S : \A y \in S : x <= y

\* The sequence s without the later occurrences of equal elements.
Dedup(s) ==
  LET F[i \in 0..Len(s)] ==
        IF i = 0 THEN <<>>
        ELSE IF \E j \in 1..Len(F[i - 1]) : F[i - 1][j] = s[i]
             THEN F[i - 1]
             ELSE Append(F[i - 1], s[i])
  IN F[Len(s)]

----------------------------------------------------------------------------
\* Input: rooted binary topologies.  A topology on the taxon set X is the
\* set of the leaf sets of its nodes (X itself, the singletons, and T-2
\* further clades).

RECURSIVE TreesOn(_)
TreesOn(X) ==
  IF Cardinality(X) = 1 THEN {{X}}
  ELSE UNION { { {X} \cup ta \cup tb : ta \in TreesOn(A), tb \in TreesOn(X \ A) } :
               A \in {A \in SUBSET X : A # {} /\ A # X /\ MinOf(X) \in A} }

RECURSIVE DistinctSeqs(_, _)
DistinctSeqs(S, n) ==
  IF n = 0 THEN {<<>>}
  ELSE LET prev == DistinctSeqs(S, n - 1)
       IN prev \cup UNION { {Append(s, x) : x \in S \ Range(s)} :
                            s \in {p \in prev : Len(p) = n - 1} }

\* A collection: a taxon count and the distinct topologies of its topology
\* counter in the counter's iteration order (the multiplicities are not read
\* by the construction).
TreeCollections ==
  UNION { { [taxon_count |-> T, trees |-> s] :
            s \in DistinctSeqs(TreesOn(0..(T - 1)), MaxLeaves \div T) \ {<<>>} } :
          T \in 2..MaxTaxa }

----------------------------------------------------------------------------
\* Bitset algebra on the set representation.

\* The bit positions of a Bitset of the length of the collection's leaf sets.
Taxa == 0..(tree_collection.taxon_count - 1)

\* ~b for a Bitset of length taxon count.
Complement(b) == Taxa \ b

\* std::min of two distinct Bitsets: bitwise lexicographic from position 0,
\* with false < true, so the smaller one has a 0 at the first position where
\* the two differ.
BitsetMin(a, b) ==
  IF a = b THEN a
  ELSE LET d == MinOf((a \ b) \cup (b \ a)) IN IF d \in a THEN b ELSE a

\* Bitset::Minorize: the smaller of a Bitset and its complement.
Minorize(b) == BitsetMin(b, Complement(b))

RotateSubsplit(s) == <<s[2], s[1]>>

SplitChunk(s, i) == s[i + 1]

\* Bitset::Any
BitsetAny(b) == b # {}

\* Bitset::SingletonOption().has_value()
IsSingleton(b) == Cardinality(b) = 1

\* Bitset::ChildSubsplit(parent, child_half): the subsplit of the parent's
\* second chunk into the rest and child_half.
ChildSubsplit(parent, child_half) ==
  <<SplitChunk(parent, 1) \ child_half, child_half>>

\* rootsplit + ~rootsplit
RootSubsplit(rootsplit) == <<rootsplit, Complement(rootsplit)>>

\* Bitset zero(T); zero + fake with only bit taxon_idx set.
FakeSubsplit(taxon_idx) == <<{}, {taxon_idx}>>

----------------------------------------------------------------------------
\* Harvest of a topology counter (RootedSBNMaps).

\* The two child clades of the internal clade X of topology t.
ChildClades(t, X) ==
  {C \in t : C \subseteq X /\ C # X /\
             ~\E D \in t : C \subseteq D /\ C # D /\ D \subseteq X /\ D # X}

\* The rootsplit of a topology: the leaf set of a child of the root, minorized.
Rootsplit(t) == Minorize(CHOOSE C \in ChildClades(t, Taxa) : TRUE)

\* Pre-order over the internal non-root nodes: for a focal clade X with
\* sister clade, the pair (sister + focal, min of the focal's child clades).
RECURSIVE RootedPCSSPreOrder(_, _, _)
RootedPCSSPreOrder(t, X, sister) ==
  IF Cardinality(X) = 1 THEN <<>>
  ELSE LET cs == ChildClades(t, X)
           c0 == CHOOSE C \in cs : MinOf(X) \in C
           c1 == CHOOSE C \in cs : C # c0
           here == IF sister = {} THEN <<>>
                   ELSE << [parent |-> <<sister, X>>, child |-> BitsetMin(c0, c1)] >>
       IN here \o RootedPCSSPreOrder(t, c0, c1) \o RootedPCSSPreOrder(t, c1, c0)

\* The keys of the rootsplit counter, in iteration order.
RootsplitCounterOf(trees) ==
  Dedup([i \in 1..Len(trees) |-> Rootsplit(trees[i])])

RECURSIVE AllPCSS(_, _)
AllPCSS(trees, i) ==
  IF i > Len(trees) THEN <<>>
  ELSE RootedPCSSPreOrder(trees[i], Taxa, {}) \o AllPCSS(trees, i + 1)

\* The PCSS counter in iteration order: a sequence of parents, each with the
\* sequence of its distinct child halves.
PCSSCounterOf(trees) ==
  LET all == AllPCSS(trees, 1)
      parents == Dedup([i \in 1..Len(all) |-> all[i].parent])
      of(p) == LET mine == SelectSeq(all, LAMBDA e : e.parent = p)
               IN Dedup([i \in 1..Len(mine) |-> mine[i].child])
  IN [k \in 1..Len(parents) |-> [parent |-> parents[k], child_counter |-> of(parents[k])]]

----------------------------------------------------------------------------
\* GPDAG::ProcessTrees

\* The state of the second loop after the first k parents of the counter.
\* Mutant: the PCSP indices start at 0 instead of after the rootsplits.
ProcessTreesLoopFromZero(counter, start) ==
  LET F[k \in 0..Len(counter)] ==
        IF k = 0 THEN [index |-> 0, p2r |-> EmptyMap, i2c |-> EmptyMap]
        ELSE LET prev == F[k - 1]
                 parent == counter[k].parent
                 cc == counter[k].child_counter
             IN [index |-> prev.index + Len(cc),
                 p2r |-> prev.p2r @@ (parent :> <<prev.index, prev.index + Len(cc)>>),
                 i2c |-> prev.i2c @@
                         [j \in prev.index..(prev.index + Len(cc) - 1) |->
                            ChildSubsplit(parent, cc[j - prev.index + 1])]]
  IN F[Len(counter)]

\* Mutant: the recorded range ends at its last index instead of one past it.
ProcessTreesLoopClosedRange(counter, start) ==
  LET F[k \in 0..Len(counter)] ==
        IF k = 0 THEN [index |-> start, p2r |-> EmptyMap, i2c |-> EmptyMap]
        ELSE LET prev == F[k - 1]
                 parent == counter[k].parent
                 cc == counter[k].child_counter
             IN [index |-> prev.index + Len(cc),
                 p2r |-> prev.p2r @@ (parent :> <<prev.index, prev.index + Len(cc) - 1>>),
                 i2c |-> prev.i2c @@
                         [j \in prev.index..(prev.index + Len(cc) - 1) |->
                            ChildSubsplit(parent, cc[j - prev.index + 1])]]
  IN F[Len(counter)]

ProcessTreesLoop(counter, start) ==
  LET F[k \in 0..Len(counter)] ==
        IF k = 0 THEN [index |-> start, p2r |-> EmptyMap, i2c |-> EmptyMap]
        ELSE LET prev == F[k - 1]
                 parent == counter[k].parent
                 cc == counter[k].child_counter
             IN [index |-> prev.index + Len(cc),
                 p2r |-> prev.p2r @@ (parent :> <<prev.index, prev.index + Len(cc)>>),
                 i2c |-> prev.i2c @@
                         [j \in prev.index..(prev.index + Len(cc) - 1) |->
                            ChildSubsplit(parent, cc[j - prev.index + 1])]]
  IN F[Len(counter)]

ProcessTrees ==
  /\ pc = "constructing"
  /\ LET rs == RootsplitCounterOf(tree_collection.trees)
         done == ProcessTreesLoop(PCSSCounterOf(tree_collection.trees), Len(rs))
     IN /\ taxon_count_' = tree_collection.taxon_count
        /\ rootsplits_' = VectorOf(rs)
        /\ parent_to_range_' = done.p2r
        /\ index_to_child_' = done.i2c
        /\ rootsplit_and_pcsp_count_' = done.index
  /\ pc' = "processed"
  /\ UNCHANGED <<tree_collection, dag_nodes_, subsplit_to_index_, gpcsp_indexer_,
                 subsplit_to_range_, result, beagle_instance>>

----------------------------------------------------------------------------
\* GPDAG::GetChildrenSubsplits, reading parent_to_range_ and index_to_child_.

\* Mutant: a subsplit that was not seen as a parent never gets a fake child.
GetChildrenSubsplitsNoFake(subsplit, include_fake_subsplits) ==
  IF subsplit \in DOMAIN parent_to_range_
  THEN LET start == parent_to_range_[subsplit][1]
           stop == parent_to_range_[subsplit][2]
       IN [i \in 0..(stop - start - 1) |-> index_to_child_[start + i]]
  ELSE EmptyMap

\* Mutant: the fake child is returned whether asked for or not.
GetChildrenSubsplitsIgnoreFlag(subsplit, include_fake_subsplits) ==
  IF subsplit \in DOMAIN parent_to_range_
  THEN LET start == parent_to_range_[subsplit][1]
           stop == parent_to_range_[subsplit][2]
       IN [i \in 0..(stop - start - 1) |-> index_to_child_[start + i]]
  ELSE IF /\ BitsetAny(SplitChunk(subsplit, 0))
          /\ IsSingleton(SplitChunk(subsplit, 1))
       THEN [i \in {0} |-> <<{}, SplitChunk(subsplit, 1)>>]
       ELSE EmptyMap

GetChildrenSubsplits(subsplit, include_fake_subsplits) ==
  IF subsplit \in DOMAIN parent_to_range_
  THEN LET start == parent_to_range_[subsplit][1]
           stop == parent_to_range_[subsplit][2]
       IN [i \in 0..(stop - start - 1) |-> index_to_child_[start + i]]
  ELSE IF /\ include_fake_subsplits
          /\ BitsetAny(SplitChunk(subsplit, 0))
          /\ IsSingleton(SplitChunk(subsplit, 1))
       THEN [i \in {0} |-> <<{}, SplitChunk(subsplit, 1)>>]
       ELSE EmptyMap

----------------------------------------------------------------------------
\* GPDAG::BuildNodes.  The construction state st holds the members being
\* built, the visited set, and failed, set when a SafeInsert or an at() throws.

NewNode(id, subsplit) ==
  [id |-> id, subsplit |-> subsplit,
   leafward_sorted |-> EmptyMap, leafward_rotated |-> EmptyMap,
   rootward_sorted |-> EmptyMap, rootward_rotated |-> EmptyMap]

\* Mutant: the node's id is read from the index map after the insertion.
CreateAndInsertNodeIdAfterInsert(subsplit, st) ==
  LET id == Size(st.dag_nodes)
  IN IF subsplit \in DOMAIN st.subsplit_to_index
     THEN [st EXCEPT !.failed = TRUE]
     ELSE [st EXCEPT !.subsplit_to_index = @ @@ (subsplit :> id),
                     !.dag_nodes = PushBack(@, NewNode(id + 1, subsplit))]

CreateAndInsertNode(subsplit, st) ==
  LET id == Size(st.dag_nodes)
  IN IF subsplit \in DOMAIN st.subsplit_to_index
     THEN [st EXCEPT !.failed = TRUE]
     ELSE [st EXCEPT !.subsplit_to_index = @ @@ (subsplit :> id),
                     !.dag_nodes = PushBack(@, NewNode(id, subsplit))]

RECURSIVE BuildNodesDepthFirst(_, _)
RECURSIVE BuildNodesVisitChildren(_, _, _)
\* Mutant: the node is created before its children are visited (pre-order).
BuildNodesDepthFirstPreOrder(subsplit, st) ==
  LET s0 == CreateAndInsertNode(subsplit, [st EXCEPT !.visited = @ \cup {subsplit}])
      s1 == BuildNodesVisitChildren(GetChildrenSubsplits(subsplit, FALSE), 0, s0)
  IN BuildNodesVisitChildren(
       GetChildrenSubsplits(RotateSubsplit(subsplit), FALSE), 0, s1)

\* Mutant: a child is built again although it was visited.
BuildNodesVisitChildrenNoVisitedCheck(children_subsplits, k, st) ==
  IF k >= Size(children_subsplits) \/ st.failed THEN st
  ELSE BuildNodesVisitChildren(children_subsplits, k + 1,
         BuildNodesDepthFirst(children_subsplits[k], st))

\* The loop over children_subsplits from position k on.
BuildNodesVisitChildren(children_subsplits, k, st) ==
  IF k >= Size(children_subsplits) \/ st.failed THEN st
  ELSE BuildNodesVisitChildren(children_subsplits, k + 1,
         IF children_subsplits[k] \notin st.visited
         THEN BuildNodesDepthFirst(children_subsplits[k], st)
         ELSE st)

BuildNodesDepthFirst(subsplit, st) ==
  LET s0 == [st EXCEPT !.visited = @ \cup {subsplit}]
      s1 == BuildNodesVisitChildren(GetChildrenSubsplits(subsplit, FALSE), 0, s0)
      s2 == BuildNodesVisitChildren(
              GetChildrenSubsplits(RotateSubsplit(subsplit), FALSE), 0, s1)
  IN IF s2.failed THEN s2 ELSE CreateAndInsertNode(subsplit, s2)

RECURSIVE BuildNodesFakeLoop(_, _)
BuildNodesFakeLoop(taxon_idx, st) ==
  IF taxon_idx >= taxon_count_ \/ st.failed THEN st
  ELSE BuildNodesFakeLoop(taxon_idx + 1,
                          CreateAndInsertNode(FakeSubsplit(taxon_idx), st))

RECURSIVE BuildNodesRootLoop(_, _)
BuildNodesRootLoop(k, st) ==
  IF k >= Size(rootsplits_) \/ st.failed THEN st
  ELSE BuildNodesRootLoop(k + 1,
                          BuildNodesDepthFirst(RootSubsplit(rootsplits_[k]), st))

BuildNodesResult ==
  BuildNodesRootLoop(0,
    BuildNodesFakeLoop(0, [visited |-> {}, dag_nodes |-> EmptyMap,
                           subsplit_to_index |-> EmptyMap, failed |-> FALSE]))

BuildNodes ==
  /\ pc = "processed"
  /\ LET st == BuildNodesResult
     IN /\ dag_nodes_' = st.dag_nodes
        /\ subsplit_to_index_' = st.subsplit_to_index
        /\ pc' = IF st.failed THEN "failed" ELSE "nodes"
  /\ UNCHANGED <<tree_collection, taxon_count_, rootsplits_, parent_to_range_,
                 index_to_child_, rootsplit_and_pcsp_count_, gpcsp_indexer_,
                 subsplit_to_range_, result, beagle_instance>>

----------------------------------------------------------------------------
\* GPDAG::BuildEdges.  st is [dag_nodes, failed].

\* GPDAGNode::GetBitset(rotated)
GetBitset(node, rotated) ==
  IF rotated THEN RotateSubsplit(node.subsplit) ELSE node.subsplit

\* Mutant: the child records every parent in its rootward-sorted list.
AddEdgeRootwardSorted(nodes, idx, child_id, rotated) ==
  IF rotated
  THEN [nodes EXCEPT ![idx].leafward_rotated = PushBack(@, child_id),
                     ![child_id].rootward_sorted = PushBack(@, idx)]
  ELSE [nodes EXCEPT ![idx].leafward_sorted = PushBack(@, child_id),
                     ![child_id].rootward_sorted = PushBack(@, idx)]

\* The edge idx -> child_id recorded in both endpoints' lists.
AddEdge(nodes, idx, child_id, rotated) ==
  IF rotated
  THEN [nodes EXCEPT ![idx].leafward_rotated = PushBack(@, child_id),
                     ![child_id].rootward_rotated = PushBack(@, idx)]
  ELSE [nodes EXCEPT ![idx].leafward_sorted = PushBack(@, child_id),
                     ![child_id].rootward_sorted = PushBack(@, idx)]

RECURSIVE ConnectNodesLoop(_, _, _, _, _)
ConnectNodesLoop(idx, rotated, children, k, st) ==
  IF k >= Size(children) \/ st.failed THEN st
  ELSE ConnectNodesLoop(idx, rotated, children, k + 1,
         IF children[k] \notin DOMAIN subsplit_to_index_
         THEN [st EXCEPT !.failed = TRUE]
         ELSE [st EXCEPT !.dag_nodes =
                 AddEdge(@, idx, subsplit_to_index_[children[k]], rotated)])

\* Mutant: the rotated children are not connected.
ConnectNodesSortedOnly(idx, rotated, st) ==
  IF rotated THEN st
  ELSE ConnectNodesLoop(idx, rotated,
                        GetChildrenSubsplits(GetBitset(st.dag_nodes[idx], rotated), TRUE),
                        0, st)

\* Mutant: the children are looked up without the fake subsplits.
ConnectNodesWithoutFake(idx, rotated, st) ==
  ConnectNodesLoop(idx, rotated,
                   GetChildrenSubsplits(GetBitset(st.dag_nodes[idx], rotated), FALSE),
                   0, st)

ConnectNodes(idx, rotated, st) ==
  LET subsplit == GetBitset(st.dag_nodes[idx], rotated)
      children == GetChildrenSubsplits(subsplit, TRUE)
  IN ConnectNodesLoop(idx, rotated, children, 0, st)

RECURSIVE BuildEdgesLoop(_, _)
BuildEdgesLoop(i, st) ==
  IF i >= Size(st.dag_nodes) \/ st.failed THEN st
  ELSE LET s1 == ConnectNodes(i, FALSE, st)
       IN BuildEdgesLoop(i + 1, IF s1.failed THEN s1 ELSE ConnectNodes(i, TRUE, s1))

BuildEdges ==
  /\ pc = "nodes"
  /\ LET st == BuildEdgesLoop(taxon_count_, [dag_nodes |-> dag_nodes_, failed |-> FALSE])
     IN /\ dag_nodes_' = st.dag_nodes
        /\ pc' = IF st.failed THEN "failed" ELSE "edges"
  /\ UNCHANGED <<tree_collection, taxon_count_, rootsplits_, parent_to_range_,
                 index_to_child_, rootsplit_and_pcsp_count_, subsplit_to_index_,
                 gpcsp_indexer_, subsplit_to_range_, result, beagle_instance>>

----------------------------------------------------------------------------
\* GPDAG::BuildPCSPIndexer.  st is [idx, gpcsp_indexer, subsplit_to_range, failed].

\* SafeInsert into the map named by field: throws when the key is present.
IndexerInsert(st, field, key, value) ==
  IF key \in DOMAIN st[field]
  THEN [st EXCEPT !.failed = TRUE]
  ELSE [st EXCEPT ![field] = @ @@ (key :> value)]

RECURSIVE IndexerRootLoop(_, _)
IndexerRootLoop(k, st) ==
  IF k >= Size(rootsplits_) \/ st.failed THEN st
  ELSE IndexerRootLoop(k + 1,
         [IndexerInsert(st, "gpcsp_indexer", RootSubsplit(rootsplits_[k]), st.idx)
            EXCEPT !.idx = @ + 1])

RECURSIVE IndexerChildLoop(_, _, _, _, _)
\* Mutant: idx is not advanced after a child.
IndexerChildLoopSharedIndex(parent_subsplit, children, j, child_count, st) ==
  IF j >= child_count \/ st.failed THEN st
  ELSE IndexerChildLoop(parent_subsplit, children, j + 1, child_count,
         IndexerInsert(st, "gpcsp_indexer",
                       parent_subsplit \o dag_nodes_[children[j]].subsplit, st.idx))

\* Mutant: the children of a range are indexed from the last to the first.
IndexerChildLoopDescending(parent_subsplit, children, j, child_count, st) ==
  IF j >= child_count \/ st.failed THEN st
  ELSE IndexerChildLoop(parent_subsplit, children, j + 1, child_count,
         [IndexerInsert(st, "gpcsp_indexer",
                        parent_subsplit
                          \o dag_nodes_[children[child_count - 1 - j]].subsplit,
                        st.idx)
            EXCEPT !.idx = @ + 1])

\* The loop  for (j = 0; j < child_count; j++)  over the children of one
\* orientation of node: one index per child.
IndexerChildLoop(parent_subsplit, children, j, child_count, st) ==
  IF j >= child_count \/ st.failed THEN st
  ELSE IndexerChildLoop(parent_subsplit, children, j + 1, child_count,
         [IndexerInsert(st, "gpcsp_indexer",
                        parent_subsplit \o dag_nodes_[children[j]].subsplit, st.idx)
            EXCEPT !.idx = @ + 1])

\* Mutant: the recorded range stops one short.
IndexerBlockShortRange(parent_subsplit, children, st) ==
  LET child_count == Size(children)
  IN IF child_count > 0 /\ ~st.failed
     THEN IndexerChildLoop(parent_subsplit, children, 0, child_count,
            IndexerInsert(st, "subsplit_to_range", parent_subsplit,
                          <<st.idx, st.idx + child_count - 1>>))
     ELSE st

\* One of the two blocks of the lambda: the range of the orientation, then
\* its children.
IndexerBlock(parent_subsplit, children, st) ==
  LET child_count == Size(children)
  IN IF child_count > 0 /\ ~st.failed
     THEN IndexerChildLoop(parent_subsplit, children, 0, child_count,
            IndexerInsert(st, "subsplit_to_range", parent_subsplit,
                          <<st.idx, st.idx + child_count>>))
     ELSE st

RECURSIVE IndexerNodeLoop(_, _)
IndexerNodeLoop(i, st) ==
  IF i >= Size(dag_nodes_) \/ st.failed THEN st
  ELSE LET node == dag_nodes_[i]
           s1 == IndexerBlock(GetBitset(node, FALSE), node.leafward_sorted, st)
           s2 == IndexerBlock(GetBitset(node, TRUE), node.leafward_rotated, s1)
       IN IndexerNodeLoop(i + 1, s2)

BuildPCSPIndexerResult ==
  LET s0 == IndexerRootLoop(0, [idx |-> 0, gpcsp_indexer |-> EmptyMap,
                                subsplit_to_range |-> EmptyMap, failed |-> FALSE])
  IN IF taxon_count_ < Size(dag_nodes_)
     THEN IndexerNodeLoop(taxon_count_, s0)
     ELSE [s0 EXCEPT !.failed = TRUE]

BuildPCSPIndexer ==
  /\ pc = "edges"
  /\ LET st == BuildPCSPIndexerResult
     IN /\ gpcsp_indexer_' = st.gpcsp_indexer
        /\ subsplit_to_range_' = st.subsplit_to_range
        /\ pc' = IF st.failed THEN "failed" ELSE "built"
  /\ UNCHANGED <<tree_collection, taxon_count_, rootsplits_, parent_to_range_,
                 index_to_child_, rootsplit_and_pcsp_count_, dag_nodes_,
                 subsplit_to_index_, result, beagle_instance>>

----------------------------------------------------------------------------
\* Queries on the constructed DAG.

NodeCount == Size(dag_nodes_)

RootsplitAndPCSPCount == rootsplit_and_pcsp_count_

RECURSIVE FakeSubsplitParameterCountSortedOnly(_)
\* Mutant: the rootward-rotated in-degree of the fake nodes is left out.
FakeSubsplitParameterCountSortedOnly(taxon_idx) ==
  IF taxon_idx >= taxon_count_ THEN 0
  ELSE Size(dag_nodes_[taxon_idx].rootward_sorted)
       + FakeSubsplitParameterCountSortedOnly(taxon_idx + 1)

RECURSIVE FakeSubsplitParameterCount(_)
\* The loop of GeneralizedPCSPCount from taxon_idx on.
FakeSubsplitParameterCount(taxon_idx) ==
  IF taxon_idx >= taxon_count_ THEN 0
  ELSE Size(dag_nodes_[taxon_idx].rootward_rotated)
       + Size(dag_nodes_[taxon_idx].rootward_sorted)
       + FakeSubsplitParameterCount(taxon_idx + 1)

GeneralizedPCSPCount == RootsplitAndPCSPCount + FakeSubsplitParameterCount(0)

\* GPDAGNode::IsRoot and IsLeaf: no rootward, respectively leafward, neighbours.
IsRoot(node) == Size(node.rootward_sorted) + Size(node.rootward_rotated) = 0

IsLeaf(node) == Size(node.leafward_sorted) + Size(node.leafward_rotated) = 0

PLVTypes == {"P", "P_HAT", "P_HAT_TILDE", "R_HAT", "R", "R_TILDE"}

\* Mutant: R_TILDE shares the offset of R.
GetPLVIndexStaticAliased(plv_type, node_count, src_idx) ==
  CASE plv_type = "P" -> src_idx
    [] plv_type = "P_HAT" -> node_count + src_idx
    [] plv_type = "P_HAT_TILDE" -> 2 * node_count + src_idx
    [] plv_type = "R_HAT" -> 3 * node_count + src_idx
    [] plv_type = "R" -> 4 * node_count + src_idx
    [] plv_type = "R_TILDE" -> 4 * node_count + src_idx
    [] OTHER -> -1

\* GPDAG::GetPLVIndexStatic; -1 stands for the Failwith of the default case.
GetPLVIndexStatic(plv_type, node_count, src_idx) ==
  CASE plv_type = "P" -> src_idx
    [] plv_type = "P_HAT" -> node_count + src_idx
    [] plv_type = "P_HAT_TILDE" -> 2 * node_count + src_idx
    [] plv_type = "R_HAT" -> 3 * node_count + src_idx
    [] plv_type = "R" -> 4 * node_count + src_idx
    [] plv_type = "R_TILDE" -> 5 * node_count + src_idx
    [] OTHER -> -1

GetPLVIndex(plv_type, src_idx) == GetPLVIndexStatic(plv_type, Size(dag_nodes_), src_idx)

----------------------------------------------------------------------------
\* Traversal orders.  st is [visit_order, visited_nodes, failed]; failed is
\* set when SafeInsert(visited_nodes, id) throws.

RECURSIVE RootwardDepthFirst(_, _)
RECURSIVE RootwardDepthFirstLoop(_, _, _)
RootwardDepthFirstLoop(ids, k, st) ==
  IF k >= Size(ids) \/ st.failed THEN st
  ELSE RootwardDepthFirstLoop(ids, k + 1,
         IF ids[k] \notin st.visited_nodes THEN RootwardDepthFirst(ids[k], st) ELSE st)

\* Mutant: the node is appended before its rootward neighbours are processed.
RootwardDepthFirstPreOrder(id, st) ==
  IF id \in st.visited_nodes THEN [st EXCEPT !.failed = TRUE]
  ELSE LET s0 == [st EXCEPT !.visited_nodes = @ \cup {id},
                            !.visit_order = Append(@, id)]
           s1 == RootwardDepthFirstLoop(dag_nodes_[id].rootward_sorted, 0, s0)
       IN RootwardDepthFirstLoop(dag_nodes_[id].rootward_rotated, 0, s1)

RootwardDepthFirst(id, st) ==
  IF id \in st.visited_nodes THEN [st EXCEPT !.failed = TRUE]
  ELSE LET s0 == [st EXCEPT !.visited_nodes = @ \cup {id}]
           s1 == RootwardDepthFirstLoop(dag_nodes_[id].rootward_sorted, 0, s0)
           s2 == RootwardDepthFirstLoop(dag_nodes_[id].rootward_rotated, 0, s1)
       IN IF s2.failed THEN s2 ELSE [s2 EXCEPT !.visit_order = Append(@, id)]

RECURSIVE LeafwardDepthFirst(_, _)
RECURSIVE LeafwardDepthFirstLoop(_, _, _)
\* Mutant: the leafward neighbours are entered whether visited or not.
LeafwardDepthFirstLoopNoVisitedCheck(ids, k, st) ==
  IF k >= Size(ids) \/ st.failed THEN st
  ELSE LeafwardDepthFirstLoop(ids, k + 1, LeafwardDepthFirst(ids[k], st))

LeafwardDepthFirstLoop(ids, k, st) ==
  IF k >= Size(ids) \/ st.failed THEN st
  ELSE LeafwardDepthFirstLoop(ids, k + 1,
         IF ids[k] \notin st.visited_nodes THEN LeafwardDepthFirst(ids[k], st) ELSE st)

\* Mutant: the node is appended before its leafward neighbours are processed.
LeafwardDepthFirstPreOrder(id, st) ==
  IF id \in st.visited_nodes THEN [st EXCEPT !.failed = TRUE]
  ELSE LET s0 == [st EXCEPT !.visited_nodes = @ \cup {id},
                            !.visit_order = Append(@, id)]
           s1 == LeafwardDepthFirstLoop(dag_nodes_[id].leafward_sorted, 0, s0)
       IN LeafwardDepthFirstLoop(dag_nodes_[id].leafward_rotated, 0, s1)

LeafwardDepthFirst(id, st) ==
  IF id \in st.visited_nodes THEN [st EXCEPT !.failed = TRUE]
  ELSE LET s0 == [st EXCEPT !.visited_nodes = @ \cup {id}]
           s1 == LeafwardDepthFirstLoop(dag_nodes_[id].leafward_sorted, 0, s0)
           s2 == LeafwardDepthFirstLoop(dag_nodes_[id].leafward_rotated, 0, s1)
       IN IF s2.failed THEN s2 ELSE [s2 EXCEPT !.visit_order = Append(@, id)]

TraversalStart == [visit_order |-> <<>>, visited_nodes |-> {}, failed |-> FALSE]

RECURSIVE LeafwardPassTraversalLoop(_, _)
LeafwardPassTraversalLoop(leaf_idx, st) ==
  IF leaf_idx >= taxon_count_ \/ st.failed THEN st
  ELSE LeafwardPassTraversalLoop(leaf_idx + 1, RootwardDepthFirst(leaf_idx, st))

LeafwardPassTraversal == LeafwardPassTraversalLoop(0, TraversalStart)

RECURSIVE RootwardPassTraversalLoop(_, _)
RootwardPassTraversalLoop(k, st) ==
  IF k >= Size(rootsplits_) \/ st.failed THEN st
  ELSE IF RootSubsplit(rootsplits_[k]) \notin DOMAIN subsplit_to_index_
       THEN [st EXCEPT !.failed = TRUE]
       ELSE RootwardPassTraversalLoop(k + 1,
              LeafwardDepthFirst(subsplit_to_index_[RootSubsplit(rootsplits_[k])], st))

RootwardPassTraversal == RootwardPassTraversalLoop(0, TraversalStart)

\* What a const method hands back: its value, or "failed" when it threw.
Returned(call, failed, value) ==
  [call |-> call, status |-> IF failed THEN "failed" ELSE "ok",
   value |-> IF failed THEN <<>> ELSE value]

Frame ==
  UNCHANGED <<tree_collection, pc, taxon_count_, rootsplits_, parent_to_range_,
              index_to_child_, rootsplit_and_pcsp_count_, dag_nodes_,
              subsplit_to_index_, gpcsp_indexer_, subsplit_to_range_,
              beagle_instance>>

CallLeafwardPassTraversal ==
  /\ pc = "built"
  /\ LET st == LeafwardPassTraversal
     IN result' = Returned("LeafwardPassTraversal", st.failed, st.visit_order)
  /\ Frame

CallRootwardPassTraversal ==
  /\ pc = "built"
  /\ LET st == RootwardPassTraversal
     IN result' = Returned("RootwardPassTraversal", st.failed, st.visit_order)
  /\ Frame

----------------------------------------------------------------------------
\* GPOperations: the instruction records.

Zero(dest) == [op |-> "Zero", dest |-> dest]

Multiply(dest, src1, src2) ==
  [op |-> "Multiply", dest |-> dest, src1 |-> src1, src2 |-> src2]

EvolvePLVWeightedBySBNParameter(dest, gpcsp, src) ==
  [op |-> "EvolvePLVWeightedBySBNParameter", dest |-> dest, gpcsp |-> gpcsp, src |-> src]

Likelihood(dest, parent, child) ==
  [op |-> "Likelihood", dest |-> dest, parent |-> parent, child |-> child]

OptimizeBranchLength(leafward, rootward, gpcsp) ==
  [op |-> "OptimizeBranchLength", leafward |-> leafward, rootward |-> rootward,
   gpcsp |-> gpcsp]

IncrementMarginalLikelihood(stationary, rootsplit, p) ==
  [op |-> "IncrementMarginalLikelihood", stationary |-> stationary,
   rootsplit |-> rootsplit, p |-> p]

UpdateSBNProbabilities(start, stop) ==
  [op |-> "UpdateSBNProbabilities", start |-> start, stop |-> stop]

----------------------------------------------------------------------------
\* The two recursive schedulers.  st is [visited_nodes, operations, failed];
\* failed is set when gpcsp_indexer_.at or subsplit_to_index_.at throws.

\* A failed state stands for an exception in flight: nothing more is emitted.
Emit(st, operation) ==
  IF st.failed THEN st ELSE [st EXCEPT !.operations = Append(@, operation)]

\* The PCSP key of the edge from node_id to child_node_id.
EdgePCSP(node_id, child_node_id, rotated) ==
  GetBitset(dag_nodes_[node_id], rotated) \o dag_nodes_[child_node_id].subsplit

RECURSIVE UpdateRHatLoop(_, _, _, _, _)
\* Mutant: the sorted parents are read through R_TILDE and the rotated ones
\* through R.
UpdateRHatLoopSwappedSource(node_id, rotated, parent_nodes, k, st) ==
  IF k >= Size(parent_nodes) \/ st.failed THEN st
  ELSE LET parent_id == parent_nodes[k]
           pcsp == EdgePCSP(parent_id, node_id, rotated)
       IN UpdateRHatLoop(node_id, rotated, parent_nodes, k + 1,
            IF pcsp \notin DOMAIN gpcsp_indexer_
            THEN [st EXCEPT !.failed = TRUE]
            ELSE Emit(st, EvolvePLVWeightedBySBNParameter(
                            GetPLVIndex("R_HAT", node_id), gpcsp_indexer_[pcsp],
                            GetPLVIndex(IF rotated THEN "R" ELSE "R_TILDE", parent_id))))

UpdateRHatLoop(node_id, rotated, parent_nodes, k, st) ==
  IF k >= Size(parent_nodes) \/ st.failed THEN st
  ELSE LET parent_id == parent_nodes[k]
           pcsp == EdgePCSP(parent_id, node_id, rotated)
       IN UpdateRHatLoop(node_id, rotated, parent_nodes, k + 1,
            IF pcsp \notin DOMAIN gpcsp_indexer_
            THEN [st EXCEPT !.failed = TRUE]
            ELSE Emit(st, EvolvePLVWeightedBySBNParameter(
                            GetPLVIndex("R_HAT", node_id), gpcsp_indexer_[pcsp],
                            GetPLVIndex(IF rotated THEN "R_TILDE" ELSE "R", parent_id))))

UpdateRHat(node_id, rotated, st) ==
  UpdateRHatLoop(node_id, rotated,
                 IF rotated THEN dag_nodes_[node_id].rootward_rotated
                            ELSE dag_nodes_[node_id].rootward_sorted, 0, st)

UpdatePHatComputeLikelihood(node_id, child_node_id, rotated, st) ==
  LET pcsp == EdgePCSP(node_id, child_node_id, rotated)
  IN IF st.failed THEN st
     ELSE IF pcsp \notin DOMAIN gpcsp_indexer_ THEN [st EXCEPT !.failed = TRUE]
     ELSE LET gpcsp_idx == gpcsp_indexer_[pcsp]
          IN Emit(Emit(st, EvolvePLVWeightedBySBNParameter(
                             GetPLVIndex(IF rotated THEN "P_HAT_TILDE" ELSE "P_HAT", node_id),
                             gpcsp_idx, GetPLVIndex("P", child_node_id))),
                  Likelihood(gpcsp_idx,
                             GetPLVIndex(IF rotated THEN "R_TILDE" ELSE "R", node_id),
                             GetPLVIndex("P", child_node_id)))

OptimizeBranchLengthUpdatePHat(node_id, child_node_id, rotated, st) ==
  LET pcsp == EdgePCSP(node_id, child_node_id, rotated)
  IN IF st.failed THEN st
     ELSE IF pcsp \notin DOMAIN gpcsp_indexer_ THEN [st EXCEPT !.failed = TRUE]
     ELSE LET gpcsp_idx == gpcsp_indexer_[pcsp]
          IN Emit(Emit(st, OptimizeBranchLength(
                             GetPLVIndex("P", child_node_id),
                             GetPLVIndex(IF rotated THEN "R_TILDE" ELSE "R", node_id),
                             gpcsp_idx)),
                  EvolvePLVWeightedBySBNParameter(
                    GetPLVIndex(IF rotated THEN "P_HAT_TILDE" ELSE "P_HAT", node_id),
                    gpcsp_idx, GetPLVIndex("P", child_node_id)))

\* Mutant: the range is renormalized whatever its length.
OptimizeSBNParametersAnyLength(subsplit, st) ==
  IF subsplit \in DOMAIN subsplit_to_range_
  THEN Emit(st, UpdateSBNProbabilities(subsplit_to_range_[subsplit][1],
                                       subsplit_to_range_[subsplit][2]))
  ELSE st

OptimizeSBNParameters(subsplit, st) ==
  IF subsplit \in DOMAIN subsplit_to_range_
  THEN LET param_range == subsplit_to_range_[subsplit]
       IN IF param_range[2] - param_range[1] > 1
          THEN Emit(st, UpdateSBNProbabilities(param_range[1], param_range[2]))
          ELSE st
  ELSE st

\* Mutant: R_HAT is recomputed but R and R_TILDE are not derived from it.
RecomputeRNoMultiply(node_id, st) ==
  UpdateRHat(node_id, TRUE,
             UpdateRHat(node_id, FALSE,
                        Emit(st, Zero(GetPLVIndex("R_HAT", node_id)))))

\* The block both schedulers run for a node that is not a root: R_HAT from
\* scratch, then R and R_TILDE.
RecomputeR(node_id, st) ==
  Emit(Emit(UpdateRHat(node_id, TRUE,
                       UpdateRHat(node_id, FALSE,
                                  Emit(st, Zero(GetPLVIndex("R_HAT", node_id))))),
            Multiply(GetPLVIndex("R", node_id),
                     GetPLVIndex("R_HAT", node_id),
                     GetPLVIndex("P_HAT_TILDE", node_id))),
       Multiply(GetPLVIndex("R_TILDE", node_id),
                GetPLVIndex("R_HAT", node_id),
                GetPLVIndex("P_HAT", node_id)))

\* Mutant: the block is run for the roots as well.
EnterNodeRootsToo(node_id, st) ==
  IF st.failed THEN st
  ELSE RecomputeR(node_id, [st EXCEPT !.visited_nodes = @ \cup {node_id}])

\* visited_nodes.insert(node_id), then the block above unless the node is a root.
EnterNode(node_id, st) ==
  IF st.failed THEN st
  ELSE IF IsRoot(dag_nodes_[node_id])
       THEN [st EXCEPT !.visited_nodes = @ \cup {node_id}]
       ELSE RecomputeR(node_id, [st EXCEPT !.visited_nodes = @ \cup {node_id}])

RECURSIVE ScheduleBranchLengthOptimization(_, _)
RECURSIVE BranchLengthChildLoop(_, _, _, _, _)
RECURSIVE BranchLengthChildLoopNoVisitedCheck(_, _, _, _, _)
\* Mutant: every child is scheduled again, visited or not.
BranchLengthChildLoopNoVisitedCheck(node_id, rotated, children, k, st) ==
  IF k >= Size(children) \/ st.failed THEN st
  ELSE BranchLengthChildLoopNoVisitedCheck(node_id, rotated, children, k + 1,
         OptimizeBranchLengthUpdatePHat(node_id, children[k], rotated,
           ScheduleBranchLengthOptimization(children[k], st)))

\* Mutant: the edge into a child that was already visited is left out.
BranchLengthChildLoopVisitedEdgeSkipped(node_id, rotated, children, k, st) ==
  IF k >= Size(children) \/ st.failed THEN st
  ELSE BranchLengthChildLoop(node_id, rotated, children, k + 1,
         IF children[k] \notin st.visited_nodes
         THEN OptimizeBranchLengthUpdatePHat(node_id, children[k], rotated,
                ScheduleBranchLengthOptimization(children[k], st))
         ELSE st)

BranchLengthChildLoop(node_id, rotated, children, k, st) ==
  IF k >= Size(children) \/ st.failed THEN st
  ELSE BranchLengthChildLoop(node_id, rotated, children, k + 1,
         OptimizeBranchLengthUpdatePHat(node_id, children[k], rotated,
           IF children[k] \notin st.visited_nodes
           THEN ScheduleBranchLengthOptimization(children[k], st)
           ELSE st))

\* What ScheduleBranchLengthOptimization does for a node that is not a leaf,
\* after the node has been entered.
BranchLengthInternalNode(node_id, st) ==
  Emit(Emit(BranchLengthChildLoop(node_id, TRUE, dag_nodes_[node_id].leafward_rotated, 0,
              Emit(Emit(BranchLengthChildLoop(node_id, FALSE,
                          dag_nodes_[node_id].leafward_sorted, 0,
                          Emit(st, Zero(GetPLVIndex("P_HAT", node_id)))),
                        Multiply(GetPLVIndex("R_TILDE", node_id),
                                 GetPLVIndex("R_HAT", node_id),
                                 GetPLVIndex("P_HAT", node_id))),
                   Zero(GetPLVIndex("P_HAT_TILDE", node_id)))),
            Multiply(GetPLVIndex("R", node_id),
                     GetPLVIndex("R_HAT", node_id),
                     GetPLVIndex("P_HAT_TILDE", node_id))),
       Multiply(GetPLVIndex("P", node_id),
                GetPLVIndex("P_HAT", node_id),
                GetPLVIndex("P_HAT_TILDE", node_id)))

ScheduleBranchLengthOptimization(node_id, st) ==
  IF IsLeaf(dag_nodes_[node_id])
  THEN EnterNode(node_id, st)
  ELSE BranchLengthInternalNode(node_id, EnterNode(node_id, st))

RECURSIVE ScheduleSBNParametersOptimization(_, _)
RECURSIVE SBNParametersChildLoop(_, _, _, _, _)
SBNParametersChildLoop(node_id, rotated, children, k, st) ==
  IF k >= Size(children) \/ st.failed THEN st
  ELSE SBNParametersChildLoop(node_id, rotated, children, k + 1,
         UpdatePHatComputeLikelihood(node_id, children[k], rotated,
           IF children[k] \notin st.visited_nodes
           THEN ScheduleSBNParametersOptimization(children[k], st)
           ELSE st))

\* Mutant: the sorted range is renormalized before the loop over the sorted
\* children.
SBNParametersInternalNodeUpdateBeforeLoop(node_id, st) ==
  Emit(Emit(OptimizeSBNParameters(GetBitset(dag_nodes_[node_id], TRUE),
              SBNParametersChildLoop(node_id, TRUE, dag_nodes_[node_id].leafward_rotated, 0,
                Emit(Emit(SBNParametersChildLoop(node_id, FALSE,
                            dag_nodes_[node_id].leafward_sorted, 0,
                            OptimizeSBNParameters(GetBitset(dag_nodes_[node_id], FALSE),
                              Emit(st, Zero(GetPLVIndex("P_HAT", node_id))))),
                          Multiply(GetPLVIndex("R_TILDE", node_id),
                                   GetPLVIndex("R_HAT", node_id),
                                   GetPLVIndex("P_HAT", node_id))),
                     Zero(GetPLVIndex("P_HAT_TILDE", node_id))))),
            Multiply(GetPLVIndex("R", node_id),
                     GetPLVIndex("R_HAT", node_id),
                     GetPLVIndex("P_HAT_TILDE", node_id))),
       Multiply(GetPLVIndex("P", node_id),
                GetPLVIndex("P_HAT", node_id),
                GetPLVIndex("P_HAT_TILDE", node_id)))

\* What ScheduleSBNParametersOptimization does for a node that is not a leaf,
\* after the node has been entered.
SBNParametersInternalNode(node_id, st) ==
  Emit(Emit(OptimizeSBNParameters(GetBitset(dag_nodes_[node_id], TRUE),
              SBNParametersChildLoop(node_id, TRUE, dag_nodes_[node_id].leafward_rotated, 0,
                Emit(Emit(OptimizeSBNParameters(GetBitset(dag_nodes_[node_id], FALSE),
                            SBNParametersChildLoop(node_id, FALSE,
                              dag_nodes_[node_id].leafward_sorted, 0,
                              Emit(st, Zero(GetPLVIndex("P_HAT", node_id))))),
                          Multiply(GetPLVIndex("R_TILDE", node_id),
                                   GetPLVIndex("R_HAT", node_id),
                                   GetPLVIndex("P_HAT", node_id))),
                     Zero(GetPLVIndex("P_HAT_TILDE", node_id))))),
            Multiply(GetPLVIndex("R", node_id),
                     GetPLVIndex("R_HAT", node_id),
                     GetPLVIndex("P_HAT_TILDE", node_id))),
       Multiply(GetPLVIndex("P", node_id),
                GetPLVIndex("P_HAT", node_id),
                GetPLVIndex("P_HAT_TILDE", node_id)))

ScheduleSBNParametersOptimization(node_id, st) ==
  IF IsLeaf(dag_nodes_[node_id])
  THEN EnterNode(node_id, st)
  ELSE SBNParametersInternalNode(node_id, EnterNode(node_id, st))

\* Mutant: the visited set outlives the call that filled it.
ScheduleStartStaleVisited ==
  [visited_nodes |-> IF result.call = "none" THEN {} ELSE DOMAIN dag_nodes_,
   operations |-> <<>>, failed |-> FALSE]

ScheduleStart == [visited_nodes |-> {}, operations |-> <<>>, failed |-> FALSE]

RECURSIVE BranchLengthOptimizationLoop(_, _)
BranchLengthOptimizationLoop(k, st) ==
  IF k >= Size(rootsplits_) \/ st.failed THEN st
  ELSE IF RootSubsplit(rootsplits_[k]) \notin DOMAIN subsplit_to_index_
       THEN [st EXCEPT !.failed = TRUE]
       ELSE BranchLengthOptimizationLoop(k + 1,
              ScheduleBranchLengthOptimization(
                subsplit_to_index_[RootSubsplit(rootsplits_[k])], st))

BranchLengthOptimization == BranchLengthOptimizationLoop(0, ScheduleStart)

\* Mutant: the marginal likelihood is incremented before the root is scheduled.
SBNParameterOptimizationRootIncrementFirst(rootsplit_idx, node_id, st) ==
  ScheduleSBNParametersOptimization(node_id,
    Emit(st, IncrementMarginalLikelihood(GetPLVIndex("R_HAT", node_id), rootsplit_idx,
                                         GetPLVIndex("P", node_id))))

\* One turn of SBNParameterOptimization's loop over the rootsplits.
SBNParameterOptimizationRoot(rootsplit_idx, node_id, st) ==
  Emit(ScheduleSBNParametersOptimization(node_id, st),
       IncrementMarginalLikelihood(GetPLVIndex("R_HAT", node_id), rootsplit_idx,
                                   GetPLVIndex("P", node_id)))

RECURSIVE SBNParameterOptimizationLoop(_, _)
SBNParameterOptimizationLoop(rootsplit_idx, st) ==
  IF rootsplit_idx >= Size(rootsplits_) \/ st.failed THEN st
  ELSE IF RootSubsplit(rootsplits_[rootsplit_idx]) \notin DOMAIN subsplit_to_index_
       THEN [st EXCEPT !.failed = TRUE]
       ELSE SBNParameterOptimizationLoop(rootsplit_idx + 1,
              SBNParameterOptimizationRoot(
                rootsplit_idx, subsplit_to_index_[RootSubsplit(rootsplits_[rootsplit_idx])],
                st))

\* Mutant: the rootsplit range is renormalized only when it has several entries.
SBNParameterOptimizationGuardedFinal ==
  IF Size(rootsplits_) > 1
  THEN Emit(SBNParameterOptimizationLoop(0, ScheduleStart),
            UpdateSBNProbabilities(0, Size(rootsplits_)))
  ELSE SBNParameterOptimizationLoop(0, ScheduleStart)

SBNParameterOptimization ==
  Emit(SBNParameterOptimizationLoop(0, ScheduleStart),
       UpdateSBNProbabilities(0, Size(rootsplits_)))

CallBranchLengthOptimization ==
  /\ pc = "built"
  /\ LET st == BranchLengthOptimization
     IN result' = Returned("BranchLengthOptimization", st.failed, st.operations)
  /\ Frame

CallSBNParameterOptimization ==
  /\ pc = "built"
  /\ LET st == SBNParameterOptimization
     IN result' = Returned("SBNParameterOptimization", st.failed, st.operations)
  /\ Frame

----------------------------------------------------------------------------
\* The generators that walk the nodes or a visit order.  st is
\* [operations, failed].

OperationsStart == [operations |-> <<>>, failed |-> FALSE]

SetToStationaryDistribution(dest, root_gpcsp_idx) ==
  [op |-> "SetToStationaryDistribution", dest |-> dest,
   root_gpcsp_idx |-> root_gpcsp_idx]

\* operations.insert(operations.end(), more.begin(), more.end())
InsertAtEnd(st, more) ==
  IF st.failed THEN st
  ELSE IF more.failed THEN [st EXCEPT !.failed = TRUE]
  ELSE [st EXCEPT !.operations = @ \o more.operations]

RECURSIVE ComputeLikelihoodsChildLoop(_, _, _, _, _)
\* Mutant: the rotated children are read through R as well.
ComputeLikelihoodsChildLoopAlwaysR(node_id, rotated, children, k, st) ==
  IF k >= Size(children) \/ st.failed THEN st
  ELSE ComputeLikelihoodsChildLoop(node_id, rotated, children, k + 1,
         IF EdgePCSP(node_id, children[k], rotated) \notin DOMAIN gpcsp_indexer_
         THEN [st EXCEPT !.failed = TRUE]
         ELSE Emit(st, Likelihood(gpcsp_indexer_[EdgePCSP(node_id, children[k], rotated)],
                                  GetPLVIndex("R", node_id),
                                  GetPLVIndex("P", children[k]))))

\* One of the two child loops of the lambda of ComputeLikelihoods.
ComputeLikelihoodsChildLoop(node_id, rotated, children, k, st) ==
  IF k >= Size(children) \/ st.failed THEN st
  ELSE ComputeLikelihoodsChildLoop(node_id, rotated, children, k + 1,
         IF EdgePCSP(node_id, children[k], rotated) \notin DOMAIN gpcsp_indexer_
         THEN [st EXCEPT !.failed = TRUE]
         ELSE Emit(st, Likelihood(gpcsp_indexer_[EdgePCSP(node_id, children[k], rotated)],
                                  GetPLVIndex(IF rotated THEN "R_TILDE" ELSE "R", node_id),
                                  GetPLVIndex("P", children[k]))))

\* IterateOverRealNodes applied to the lambda of ComputeLikelihoods.
RECURSIVE ComputeLikelihoodsNodeLoop(_, _)
ComputeLikelihoodsNodeLoop(i, st) ==
  IF i >= Size(dag_nodes_) \/ st.failed THEN st
  ELSE ComputeLikelihoodsNodeLoop(i + 1,
         ComputeLikelihoodsChildLoop(i, TRUE, dag_nodes_[i].leafward_rotated, 0,
           ComputeLikelihoodsChildLoop(i, FALSE, dag_nodes_[i].leafward_sorted, 0, st)))

RECURSIVE MarginalLikelihoodLoop(_, _)
MarginalLikelihoodLoop(rootsplit_idx, st) ==
  IF rootsplit_idx >= Size(rootsplits_) \/ st.failed THEN st
  ELSE MarginalLikelihoodLoop(rootsplit_idx + 1,
         IF RootSubsplit(rootsplits_[rootsplit_idx]) \notin DOMAIN subsplit_to_index_
         THEN [st EXCEPT !.failed = TRUE]
         ELSE Emit(st, IncrementMarginalLikelihood(
                         GetPLVIndex("R_HAT",
                           subsplit_to_index_[RootSubsplit(rootsplits_[rootsplit_idx])]),
                         rootsplit_idx,
                         GetPLVIndex("P",
                           subsplit_to_index_[RootSubsplit(rootsplits_[rootsplit_idx])]))))

MarginalLikelihood == MarginalLikelihoodLoop(0, OperationsStart)

\* The Assert of IterateOverRealNodes fails when there is no real node.
ComputeLikelihoods ==
  IF taxon_count_ < Size(dag_nodes_)
  THEN InsertAtEnd(ComputeLikelihoodsNodeLoop(taxon_count_, OperationsStart),
                   MarginalLikelihood)
  ELSE [OperationsStart EXCEPT !.failed = TRUE]

RECURSIVE AddRootwardWeightedSumAccumulateLoop(_, _, _, _, _)
AddRootwardWeightedSumAccumulateLoop(node_id, rotated, child_idxs, k, st) ==
  IF k >= Size(child_idxs) \/ st.failed THEN st
  ELSE AddRootwardWeightedSumAccumulateLoop(node_id, rotated, child_idxs, k + 1,
         IF EdgePCSP(node_id, child_idxs[k], rotated) \notin DOMAIN gpcsp_indexer_
         THEN [st EXCEPT !.failed = TRUE]
         ELSE Emit(st, EvolvePLVWeightedBySBNParameter(
                         GetPLVIndex(IF rotated THEN "P_HAT_TILDE" ELSE "P_HAT", node_id),
                         gpcsp_indexer_[EdgePCSP(node_id, child_idxs[k], rotated)],
                         GetPLVIndex("P", child_idxs[k]))))

AddRootwardWeightedSumAccumulateOperations(node_id, rotated, st) ==
  AddRootwardWeightedSumAccumulateLoop(
    node_id, rotated,
    IF rotated THEN dag_nodes_[node_id].leafward_rotated
               ELSE dag_nodes_[node_id].leafward_sorted, 0, st)

RECURSIVE RootwardPassLoop(_, _, _)
\* Mutant: the leaves are not skipped.
RootwardPassLoopNoLeafSkip(visit_order, k, st) ==
  IF k > Len(visit_order) \/ st.failed THEN st
  ELSE RootwardPassLoop(visit_order, k + 1,
         Emit(AddRootwardWeightedSumAccumulateOperations(visit_order[k], TRUE,
                AddRootwardWeightedSumAccumulateOperations(visit_order[k], FALSE, st)),
              Multiply(visit_order[k],
                       GetPLVIndex("P_HAT", visit_order[k]),
                       GetPLVIndex("P_HAT_TILDE", visit_order[k]))))

\* The loop of RootwardPass(visit_order) from position k on.
RootwardPassLoop(visit_order, k, st) ==
  IF k > Len(visit_order) \/ st.failed THEN st
  ELSE RootwardPassLoop(visit_order, k + 1,
         IF IsLeaf(dag_nodes_[visit_order[k]]) THEN st
         ELSE Emit(AddRootwardWeightedSumAccumulateOperations(visit_order[k], TRUE,
                     AddRootwardWeightedSumAccumulateOperations(visit_order[k], FALSE, st)),
                   Multiply(visit_order[k],
                            GetPLVIndex("P_HAT", visit_order[k]),
                            GetPLVIndex("P_HAT_TILDE", visit_order[k]))))

\* Mutant: RootwardPass() loops over the order of LeafwardPassTraversal.
RootwardPassOfLeafwardOrder(traversal) ==
  IF traversal.failed THEN [OperationsStart EXCEPT !.failed = TRUE]
  ELSE RootwardPassLoop(LeafwardPassTraversal.visit_order, 1, OperationsStart)

\* RootwardPass(): the traversal, then the loop over its order.
RootwardPassOf(traversal) ==
  IF traversal.failed THEN [OperationsStart EXCEPT !.failed = TRUE]
  ELSE RootwardPassLoop(traversal.visit_order, 1, OperationsStart)

RootwardPass == RootwardPassOf(RootwardPassTraversal)

RECURSIVE AddLeafwardWeightedSumAccumulateLoop(_, _, _, _, _)
AddLeafwardWeightedSumAccumulateLoop(node_id, rotated, parent_idxs, k, st) ==
  IF k >= Size(parent_idxs) \/ st.failed THEN st
  ELSE AddLeafwardWeightedSumAccumulateLoop(node_id, rotated, parent_idxs, k + 1,
         IF EdgePCSP(parent_idxs[k], node_id, rotated) \notin DOMAIN gpcsp_indexer_
         THEN [st EXCEPT !.failed = TRUE]
         ELSE Emit(st, EvolvePLVWeightedBySBNParameter(
                         GetPLVIndex("R_HAT", node_id),
                         gpcsp_indexer_[EdgePCSP(parent_idxs[k], node_id, rotated)],
                         GetPLVIndex(IF rotated THEN "R_TILDE" ELSE "R", parent_idxs[k]))))

\* Mutant: the rotated parents are accumulated before the sorted ones.
AddLeafwardWeightedSumAccumulateOperationsRotatedFirst(node_id, st) ==
  AddLeafwardWeightedSumAccumulateLoop(node_id, FALSE, dag_nodes_[node_id].rootward_sorted, 0,
    AddLeafwardWeightedSumAccumulateLoop(node_id, TRUE,
                                         dag_nodes_[node_id].rootward_rotated, 0, st))

AddLeafwardWeightedSumAccumulateOperations(node_id, st) ==
  AddLeafwardWeightedSumAccumulateLoop(node_id, TRUE, dag_nodes_[node_id].rootward_rotated, 0,
    AddLeafwardWeightedSumAccumulateLoop(node_id, FALSE,
                                         dag_nodes_[node_id].rootward_sorted, 0, st))

\* The loop of LeafwardPass(visit_order) from position k on.
RECURSIVE LeafwardPassLoop(_, _, _)
LeafwardPassLoop(visit_order, k, st) ==
  IF k > Len(visit_order) \/ st.failed THEN st
  ELSE LeafwardPassLoop(visit_order, k + 1,
         Emit(Emit(AddLeafwardWeightedSumAccumulateOperations(visit_order[k], st),
                   Multiply(GetPLVIndex("R", visit_order[k]),
                            GetPLVIndex("R_HAT", visit_order[k]),
                            GetPLVIndex("P_HAT_TILDE", visit_order[k]))),
              Multiply(GetPLVIndex("R_TILDE", visit_order[k]),
                       GetPLVIndex("R_HAT", visit_order[k]),
                       GetPLVIndex("P_HAT", visit_order[k]))))

\* Mutant: LeafwardPass() loops over the order of RootwardPassTraversal.
LeafwardPassOfRootwardOrder(traversal) ==
  IF traversal.failed THEN [OperationsStart EXCEPT !.failed = TRUE]
  ELSE LeafwardPassLoop(RootwardPassTraversal.visit_order, 1, OperationsStart)

\* LeafwardPass(): the traversal, then the loop over its order.
LeafwardPassOf(traversal) ==
  IF traversal.failed THEN [OperationsStart EXCEPT !.failed = TRUE]
  ELSE LeafwardPassLoop(traversal.visit_order, 1, OperationsStart)

LeafwardPass == LeafwardPassOf(LeafwardPassTraversal)

RECURSIVE SetRootwardZeroLoop(_, _)
SetRootwardZeroLoop(i, st) ==
  IF i >= Size(dag_nodes_) THEN st
  ELSE SetRootwardZeroLoop(i + 1,
         Emit(Emit(Emit(st, Zero(GetPLVIndex("P", i))),
                   Zero(GetPLVIndex("P_HAT", i))),
              Zero(GetPLVIndex("P_HAT_TILDE", i))))

\* Mutant: the loop starts at node 0.
SetRootwardZeroFromZero == SetRootwardZeroLoop(0, OperationsStart)

SetRootwardZero == SetRootwardZeroLoop(taxon_count_, OperationsStart)

RECURSIVE SetLeafwardZeroLoop(_, _)
SetLeafwardZeroLoop(i, st) ==
  IF i >= Size(dag_nodes_) THEN st
  ELSE SetLeafwardZeroLoop(i + 1,
         Emit(Emit(Emit(st, Zero(GetPLVIndex("R_HAT", i))),
                   Zero(GetPLVIndex("R", i))),
              Zero(GetPLVIndex("R_TILDE", i))))

\* The second loop of SetLeafwardZero; the operation is built from the
\* destination alone, its other member is value-initialized.
RECURSIVE SetLeafwardZeroRootLoop(_, _)
SetLeafwardZeroRootLoop(k, st) ==
  IF k >= Size(rootsplits_) \/ st.failed THEN st
  ELSE SetLeafwardZeroRootLoop(k + 1,
         IF RootSubsplit(rootsplits_[k]) \notin DOMAIN subsplit_to_index_
         THEN [st EXCEPT !.failed = TRUE]
         ELSE Emit(st, SetToStationaryDistribution(
                         GetPLVIndex("R_HAT", subsplit_to_index_[RootSubsplit(rootsplits_[k])]),
                         0)))

\* Mutant: the roots are seeded before the buffers are zeroed.
SetLeafwardZeroStationaryFirst ==
  SetLeafwardZeroLoop(0, SetLeafwardZeroRootLoop(0, OperationsStart))

SetLeafwardZero == SetLeafwardZeroRootLoop(0, SetLeafwardZeroLoop(0, OperationsStart))

\* The loop of SetRhatToStationary from rootsplit_idx on.
RECURSIVE SetRhatToStationaryLoop(_, _)
SetRhatToStationaryLoop(rootsplit_idx, st) ==
  IF rootsplit_idx >= Size(rootsplits_) \/ st.failed THEN st
  ELSE SetRhatToStationaryLoop(rootsplit_idx + 1,
         IF RootSubsplit(rootsplits_[rootsplit_idx]) \notin DOMAIN subsplit_to_index_
         THEN [st EXCEPT !.failed = TRUE]
         ELSE Emit(st, SetToStationaryDistribution(
                         GetPLVIndex("R_HAT",
                           subsplit_to_index_[RootSubsplit(rootsplits_[rootsplit_idx])]),
                         rootsplit_idx)))

SetRhatToStationary == SetRhatToStationaryLoop(0, OperationsStart)

\* BuildUniformQ.  A slot holding 1/d is recorded as d.  The ranges are
\* written in the iteration order of an unordered_map, so a slot ends with the
\* value of any one of the ranges that cover it; a slot no range covers keeps
\* 1/rootsplits_.size() below rootsplits_.size() and 1 elsewhere.
UniformQBlockSizes(i) ==
  LET covering == {s \in DOMAIN subsplit_to_range_ :
                     subsplit_to_range_[s][1] <= i /\ i < subsplit_to_range_[s][2]}
  IN IF covering # {}
     THEN {subsplit_to_range_[s][2] - subsplit_to_range_[s][1] : s \in covering}
     ELSE IF i < Size(rootsplits_) THEN {Size(rootsplits_)} ELSE {1}

RECURSIVE UniformQVectors(_)
UniformQVectors(n) ==
  IF n = 0 THEN {EmptyMap}
  ELSE {PushBack(q, d) : q \in UniformQVectors(n - 1), d \in UniformQBlockSizes(n - 1)}

\* A segment that leaves the vector is an error.
BuildUniformQInRange ==
  /\ Size(rootsplits_) <= GeneralizedPCSPCount
  /\ \A s \in DOMAIN subsplit_to_range_ :
       subsplit_to_range_[s][1] <= subsplit_to_range_[s][2]
       /\ subsplit_to_range_[s][2] <= GeneralizedPCSPCount

CallComputeLikelihoods ==
  /\ pc = "built"
  /\ result' = Returned("ComputeLikelihoods", ComputeLikelihoods.failed,
                        ComputeLikelihoods.operations)
  /\ Frame

CallRootwardPass ==
  /\ pc = "built"
  /\ result' = Returned("RootwardPass", RootwardPass.failed, RootwardPass.operations)
  /\ Frame

CallLeafwardPass ==
  /\ pc = "built"
  /\ result' = Returned("LeafwardPass", LeafwardPass.failed, LeafwardPass.operations)
  /\ Frame

CallSetRootwardZero ==
  /\ pc = "built"
  /\ result' = Returned("SetRootwardZero", SetRootwardZero.failed,
                        SetRootwardZero.operations)
  /\ Frame

CallSetLeafwardZero ==
  /\ pc = "built"
  /\ result' = Returned("SetLeafwardZero", SetLeafwardZero.failed,
                        SetLeafwardZero.operations)
  /\ Frame

CallSetRhatToStationary ==
  /\ pc = "built"
  /\ result' = Returned("SetRhatToStationary", SetRhatToStationary.failed,
                        SetRhatToStationary.operations)
  /\ Frame

CallBuildUniformQ ==
  /\ pc = "built"
  /\ \E q \in UniformQVectors(GeneralizedPCSPCount) :
       result' = Returned("BuildUniformQ", ~BuildUniformQInRange, q)
  /\ Frame

----------------------------------------------------------------------------
\* RootwardPass(visit_order) and LeafwardPass(visit_order) on an order chosen
\* by the caller.  The passes are const and read nothing an earlier call
\* returned, so one call is followed from each constructed DAG.

\* Largest length of a visit order a caller makes up.
MaxVisitOrder == 2

\* The vectors of at most n node ids.
RECURSIVE VisitOrders(_)
VisitOrders(n) ==
  IF n = 0 THEN {<<>>}
  ELSE LET prev == VisitOrders(n - 1)
       IN prev \cup {Append(order, id) : order \in {o \in prev : Len(o) = n - 1},
                                         id \in DOMAIN dag_nodes_}

\* The orders a pass is called with: the short ones and the two traversals.
GivenVisitOrders ==
  VisitOrders(MaxVisitOrder)
    \cup {RootwardPassTraversal.visit_order, LeafwardPassTraversal.visit_order}

\* What a pass hands back, kept with the order it was called with.
PassReturned(call, visit_order, st) ==
  Returned(call, st.failed, [visit_order |-> visit_order, operations |-> st.operations])

CallRootwardPassOn ==
  /\ pc = "built"
  /\ result.call = "none"
  /\ \E visit_order \in GivenVisitOrders :
       result' = PassReturned("RootwardPass(visit_order)", visit_order,
                              RootwardPassLoop(visit_order, 1, OperationsStart))
  /\ Frame

CallLeafwardPassOn ==
  /\ pc = "built"
  /\ result.call = "none"
  /\ \E visit_order \in GivenVisitOrders :
       result' = PassReturned("LeafwardPass(visit_order)", visit_order,
                              LeafwardPassLoop(visit_order, 1, OperationsStart))
  /\ Frame

----------------------------------------------------------------------------
\* beagle::PrepareBeagleInstance (src/src/beagle.cpp).  The instance is
\* modelled by the sequence of the library calls made on it; abort() leaves
\* it in the status "aborted".

\* Largest sequence count and largest number of patterns of a site pattern.
MaxSequences == 3

\* A SymbolVector of one site.
SymbolVectors == {<<0>>, <<1>>}

RECURSIVE PatternVectors(_)
PatternVectors(n) ==
  IF n = 0 THEN {<<>>}
  ELSE LET prev == PatternVectors(n - 1)
       IN prev \cup {Append(v, x) : v \in {p \in prev : Len(p) = n - 1},
                                    x \in SymbolVectors}

\* A SitePattern as PrepareBeagleInstance reads it: SequenceCount(),
\* GetPatterns() and GetWeights().  Nothing is assumed on how the count
\* relates to the patterns.
SitePatterns ==
  [sequence_count : 1..MaxSequences,
   patterns : PatternVectors(MaxSequences) \ {<<>>},
   weights : {<<1>>}]

BeagleSetTipStates(tip_index, in_states) ==
  [call |-> "beagleSetTipStates", tip_index |-> tip_index, in_states |-> in_states]

BeagleSetPatternWeights(in_pattern_weights) ==
  [call |-> "beagleSetPatternWeights", in_pattern_weights |-> in_pattern_weights]

BeagleSetCategoryWeights(category_weights_index, in_category_weights) ==
  [call |-> "beagleSetCategoryWeights",
   category_weights_index |-> category_weights_index,
   in_category_weights |-> in_category_weights]

BeagleSetCategoryRates(in_category_rates) ==
  [call |-> "beagleSetCategoryRates", in_category_rates |-> in_category_rates]

\* The loop over the patterns: taxon_number++ per pattern.
RECURSIVE SetTipStatesLoop(_, _, _)
SetTipStatesLoop(patterns, taxon_number, calls) ==
  IF taxon_number >= Len(patterns) THEN calls
  ELSE SetTipStatesLoop(patterns, taxon_number + 1,
         Append(calls, BeagleSetTipStates(taxon_number, patterns[taxon_number + 1])))

\* Mutant: the counts are compared after the tip states are set.
PrepareBeagleInstanceLateCheck(instance, collection, site_pattern) ==
  IF collection.taxon_count # site_pattern.sequence_count
  THEN [status |-> "aborted", site_pattern |-> site_pattern,
        calls |-> SetTipStatesLoop(site_pattern.patterns, 0, instance.calls)]
  ELSE [status |-> "prepared", site_pattern |-> site_pattern,
        calls |-> SetTipStatesLoop(site_pattern.patterns, 0, instance.calls)
                  \o << BeagleSetPatternWeights(site_pattern.weights),
                        BeagleSetCategoryWeights(0, <<1>>),
                        BeagleSetCategoryRates(<<1>>) >>]

PrepareBeagleInstance(instance, collection, site_pattern) ==
  IF collection.taxon_count # site_pattern.sequence_count
  THEN [status |-> "aborted", site_pattern |-> site_pattern, calls |-> instance.calls]
  ELSE [status |-> "prepared", site_pattern |-> site_pattern,
        calls |-> SetTipStatesLoop(site_pattern.patterns, 0, instance.calls)
                  \o << BeagleSetPatternWeights(site_pattern.weights),
                        BeagleSetCategoryWeights(0, <<1>>),
                        BeagleSetCategoryRates(<<1>>) >>]

\* A created instance is prepared once.
CallPrepareBeagleInstance ==
  /\ beagle_instance.status = "created"
  /\ \E site_pattern \in SitePatterns :
       beagle_instance' = PrepareBeagleInstance(beagle_instance, tree_collection,
                                                site_pattern)
  /\ UNCHANGED <<tree_collection, pc, taxon_count_, rootsplits_, parent_to_range_,
                 index_to_child_, rootsplit_and_pcsp_count_, dag_nodes_,
                 subsplit_to_index_, gpcsp_indexer_, subsplit_to_range_, result>>

----------------------------------------------------------------------------
\* Tree likelihoods on a BEAGLE instance (beagle.cpp).  A tree is a topology
\* of the collection with its node indices: leaf i has index i, the root the
\* last index (LogLikelihood gives every index below node_count - 1 a
\* transition matrix and the last one none), the other internal nodes the
\* indices in between in the order given by `order`.

BEAGLE_OP_NONE == -1

\* beagle::CreateInstance(tip_count, alignment_length): the buffer counts
\* handed to beagleCreateInstance.
CreateInstance(tip_count, alignment_length) ==
  [tip_count |-> tip_count,
   partials_buffer_count |-> 3 * tip_count - 3,
   compact_buffer_count |-> tip_count,
   state_count |-> 4,
   pattern_count |-> alignment_length,
   eigen_buffer_count |-> 1,
   matrix_buffer_count |-> 2 * (2 * tip_count - 1),
   category_count |-> 1,
   scale_buffer_count |-> (3 * tip_count - 3) + 1]

\* The internal nodes of topology t below the root.
InnerNodes(t) == {X \in t : Cardinality(X) >= 2 /\ X # Taxa}

\* The trees of the collection: a topology, an order of its inner nodes and
\* which child of a node comes first.
IndexedTrees ==
  UNION { [topology : {t}, order : {s \in DistinctSeqs(InnerNodes(t), Cardinality(InnerNodes(t))) :
                                      Len(s) = Cardinality(InnerNodes(t))},
           low_first : BOOLEAN] : t \in Range(tree_collection.trees) }

LeafCount(tree) == Cardinality({X \in tree.topology : Cardinality(X) = 1})

\* tree.BranchLengths().size(): one entry per node.
BranchLengthsSize(tree) == Cardinality(tree.topology)

\* node->Index()
Index(tree, X) ==
  IF Cardinality(X) = 1 THEN CHOOSE i \in X : TRUE
  ELSE IF X = Taxa THEN BranchLengthsSize(tree) - 1
  ELSE LeafCount(tree) - 1 + CHOOSE k \in 1..Len(tree.order) : tree.order[k] = X

\* node->Children()[k] for k = 0, 1.
Children(tree, X, k) ==
  LET low == CHOOSE C \in ChildClades(tree.topology, X) : MinOf(X) \in C
      high == CHOOSE C \in ChildClades(tree.topology, X) : MinOf(X) \notin C
  IN IF tree.low_first = (k = 0) THEN low ELSE high

BeagleOperation(dest, scale_write, scale_read, src1, matrix1, src2, matrix2) ==
  [destinationPartials |-> dest, destinationScaleWrite |-> scale_write,
   destinationScaleRead |-> scale_read, child1Partials |-> src1,
   child1TransitionMatrix |-> matrix1, child2Partials |-> src2,
   child2TransitionMatrix |-> matrix2]

\* std::iota over a vector of the given size.
Iota(size, first) == [i \in 1..size |-> first + i - 1]

\* The operation both functions push for an internal node.
LowerPartialOperation(dest, child0_index, child1_index, int_taxon_count, rescaling) ==
  BeagleOperation(dest,
                  IF rescaling THEN dest - int_taxon_count + 1 ELSE BEAGLE_OP_NONE,
                  BEAGLE_OP_NONE, child0_index, child0_index, child1_index, child1_index)

\* The post-order over the nodes below and including X with the lambda that
\* pushes the operation of every node that is not a leaf.
RECURSIVE LowerPartialsPostOrder(_, _, _, _)
LowerPartialsPostOrder(tree, X, rescaling, operations) ==
  IF Cardinality(X) = 1 THEN operations
  ELSE Append(LowerPartialsPostOrder(tree, Children(tree, X, 1), rescaling,
                LowerPartialsPostOrder(tree, Children(tree, X, 0), rescaling, operations)),
              LowerPartialOperation(Index(tree, X),
                                    Index(tree, Children(tree, X, 0)),
                                    Index(tree, Children(tree, X, 1)),
                                    LeafCount(tree), rescaling))

\* beagle::LogLikelihood: the indices it hands to BEAGLE.
LogLikelihood(instance, tree, rescaling) ==
  [instance |-> instance,
   rescaling |-> rescaling,
   operations |-> LowerPartialsPostOrder(tree, Taxa, rescaling, <<>>),
   node_indices |-> Iota(BranchLengthsSize(tree) - 1, 0),
   gradient_indices |-> <<>>,
   cumulative_scale_index |-> IF rescaling THEN 0 ELSE BEAGLE_OP_NONE,
   root_index |-> Index(tree, Taxa),
   edges |-> <<>>]

\* What the lambdas of BranchGradient capture.
GradientContext(tree, rescaling) ==
  [root_child_index |-> Index(tree, Children(tree, Taxa, 0)),
   fixed_node_index |-> Index(tree, Children(tree, Taxa, 1)),
   rescaling |-> rescaling,
   int_taxon_count |-> LeafCount(tree),
   internal_count |-> LeafCount(tree) - 1,
   int_node_count |-> BranchLengthsSize(tree)]

\* Mutant: the scalers of the upper partials start right at the number of
\* internal nodes.
UpperPartialOperationLowScaler(c, parent_index, sister_index, node_index, operations) ==
  IF node_index # c.root_child_index /\ node_index # c.fixed_node_index
  THEN Append(operations,
         BeagleOperation(
           node_index + c.int_node_count,
           IF c.rescaling THEN node_index + c.internal_count ELSE BEAGLE_OP_NONE,
           BEAGLE_OP_NONE,
           IF parent_index = c.root_child_index THEN c.fixed_node_index
           ELSE IF parent_index = c.fixed_node_index THEN c.root_child_index
           ELSE parent_index + c.int_node_count,
           IF parent_index = c.root_child_index THEN c.root_child_index
           ELSE IF parent_index = c.fixed_node_index THEN c.root_child_index
           ELSE parent_index,
           sister_index, sister_index))
  ELSE operations

\* The lambda that pushes the upper-partial operation of a node.
UpperPartialOperation(c, parent_index, sister_index, node_index, operations) ==
  IF node_index # c.root_child_index /\ node_index # c.fixed_node_index
  THEN Append(operations,
         BeagleOperation(
           node_index + c.int_node_count,
           IF c.rescaling THEN node_index + 1 + c.internal_count ELSE BEAGLE_OP_NONE,
           BEAGLE_OP_NONE,
           IF parent_index = c.root_child_index THEN c.fixed_node_index
           ELSE IF parent_index = c.fixed_node_index THEN c.root_child_index
           ELSE parent_index + c.int_node_count,
           IF parent_index = c.root_child_index THEN c.root_child_index
           ELSE IF parent_index = c.fixed_node_index THEN c.root_child_index
           ELSE parent_index,
           sister_index, sister_index))
  ELSE operations

\* TripleIndexPreOrderBifurcating with that lambda: (parent, sister, node)
\* for each child of X, followed by the child's subtree.
RECURSIVE UpperPartialsPreOrder(_, _, _, _)
UpperPartialsPreOrder(tree, X, c, operations) ==
  IF Cardinality(X) = 1 THEN operations
  ELSE UpperPartialsPreOrder(tree, Children(tree, X, 1), c,
         UpperPartialOperation(c, Index(tree, X),
                               Index(tree, Children(tree, X, 0)),
                               Index(tree, Children(tree, X, 1)),
           UpperPartialsPreOrder(tree, Children(tree, X, 0), c,
             UpperPartialOperation(c, Index(tree, X),
                                   Index(tree, Children(tree, X, 1)),
                                   Index(tree, Children(tree, X, 0)),
                                   operations))))

\* indices_above[node_index] after the reversal and the pop_back: the indices
\* of the nodes above the node, from its parent up to the child of the root.
RECURSIVE IndicesAbove(_, _)
IndicesAbove(tree, X) ==
  LET parent == CHOOSE P \in tree.topology :
                  /\ X \subseteq P /\ X # P
                  /\ \A Q \in tree.topology : (X \subseteq Q /\ X # Q) => P \subseteq Q
  IN IF parent = Taxa THEN <<>>
     ELSE <<Index(tree, parent)>> \o IndicesAbove(tree, parent)

\* The loop that replaces lower by upper scaler indices on the way to the root.
RECURSIVE ReplaceScalers(_, _, _, _, _)
ReplaceScalers(c, above, k, child, scaler_indices) ==
  IF k > Len(above) THEN scaler_indices
  ELSE ReplaceScalers(c, above, k + 1, above[k],
         [scaler_indices EXCEPT ![above[k] - c.int_taxon_count + 1] =
            child + c.internal_count + 1])

\* The scalers handed to beagleAccumulateScaleFactors for a node.
ScalerIndices(tree, c, node_index) ==
  ReplaceScalers(c,
                 IndicesAbove(tree, CHOOSE X \in tree.topology : Index(tree, X) = node_index),
                 1, node_index, Iota(c.internal_count - 1, 1))

\* The indices of one call of beagleCalculateEdgeLogLikelihoods.
EdgeLogLikelihood(tree, c, sister_index, node_index, edges) ==
  IF node_index # c.fixed_node_index
  THEN Append(edges,
         [upper_partials_index |->
            IF node_index = c.root_child_index
            THEN (IF node_index > sister_index THEN node_index ELSE sister_index)
            ELSE node_index + c.int_node_count,
          node_partial_indices |->
            IF node_index = c.root_child_index /\ node_index > sister_index
            THEN sister_index ELSE node_index,
          node_mat_indices |-> node_index,
          node_deriv_index |-> node_index + c.int_node_count,
          scaler_indices |->
            IF c.rescaling THEN ScalerIndices(tree, c, node_index) ELSE <<>>])
  ELSE edges

\* TripleIndexPreOrderBifurcating with the lambda that computes the gradient.
RECURSIVE GradientPreOrder(_, _, _, _)
GradientPreOrder(tree, X, c, edges) ==
  IF Cardinality(X) = 1 THEN edges
  ELSE GradientPreOrder(tree, Children(tree, X, 1), c,
         EdgeLogLikelihood(tree, c, Index(tree, Children(tree, X, 0)),
                           Index(tree, Children(tree, X, 1)),
           GradientPreOrder(tree, Children(tree, X, 0), c,
             EdgeLogLikelihood(tree, c, Index(tree, Children(tree, X, 1)),
                               Index(tree, Children(tree, X, 0)), edges))))

\* beagle::BranchGradient: the indices it hands to BEAGLE.
BranchGradient(instance, tree, rescaling) ==
  [instance |-> instance,
   rescaling |-> rescaling,
   operations |->
     UpperPartialsPreOrder(tree, Taxa, GradientContext(tree, rescaling),
       LowerPartialsPostOrder(tree, Taxa, rescaling, <<>>)),
   node_indices |-> Iota(BranchLengthsSize(tree) - 1, 0),
   gradient_indices |-> Iota(BranchLengthsSize(tree) - 1, BranchLengthsSize(tree)),
   cumulative_scale_index |-> IF rescaling THEN 0 ELSE BEAGLE_OP_NONE,
   root_index |-> Index(tree, Taxa),
   edges |-> GradientPreOrder(tree, Taxa, GradientContext(tree, rescaling), <<>>)]

\* The instance is the one created for the collection's alignment, whose
\* sequence count is the taxon count (PrepareBeagleInstance aborts otherwise).
PatternCounts == {Len(v) : v \in SymbolVectors}

CallLogLikelihood ==
  /\ result.call = "none"
  /\ \E tree \in IndexedTrees, rescaling \in BOOLEAN, pattern_count \in PatternCounts :
       result' = Returned("LogLikelihood", FALSE,
                   [tree |-> tree,
                    out |-> LogLikelihood(
                              CreateInstance(tree_collection.taxon_count, pattern_count),
                              tree, rescaling)])
  /\ Frame

CallBranchGradient ==
  /\ result.call = "none"
  /\ \E tree \in IndexedTrees, rescaling \in BOOLEAN, pattern_count \in PatternCounts :
       result' = Returned("BranchGradient", FALSE,
                   [tree |-> tree,
                    out |-> BranchGradient(
                              CreateInstance(tree_collection.taxon_count, pattern_count),
                              tree, rescaling)])
  /\ Frame

----------------------------------------------------------------------------
Init ==
  /\ tree_collection \in TreeCollections
  /\ pc = "constructing"
  /\ taxon_count_ = 0
  /\ rootsplits_ = EmptyMap
  /\ parent_to_range_ = EmptyMap
  /\ index_to_child_ = EmptyMap
  /\ rootsplit_and_pcsp_count_ = 0
  /\ dag_nodes_ = EmptyMap
  /\ subsplit_to_index_ = EmptyMap
  /\ gpcsp_indexer_ = EmptyMap
  /\ subsplit_to_range_ = EmptyMap
  /\ result = [call |-> "none", status |-> "ok", value |-> <<>>]
  /\ beagle_instance = [status |-> "created", site_pattern |-> <<>>, calls |-> <<>>]

Next ==
  \/ ProcessTrees
  \/ BuildNodes
  \/ BuildEdges
  \/ BuildPCSPIndexer
  \/ CallLeafwardPassTraversal
  \/ CallRootwardPassTraversal
  \/ CallBranchLengthOptimization
  \/ CallSBNParameterOptimization
  \/ CallComputeLikelihoods
  \/ CallRootwardPass
  \/ CallLeafwardPass
  \/ CallSetRootwardZero
  \/ CallSetLeafwardZero
  \/ CallSetRhatToStationary
  \/ CallBuildUniformQ

Spec == Init /\ [][Next]_vars

\* The construction followed by passes over caller-chosen visit orders.
NextVisitOrder ==
  \/ ProcessTrees
  \/ BuildNodes
  \/ BuildEdges
  \/ BuildPCSPIndexer
  \/ CallRootwardPassOn
  \/ CallLeafwardPassOn

SpecVisitOrder == Init /\ [][NextVisitOrder]_vars

\* The preparation of a BEAGLE instance for a tree collection.
NextBeagle == CallPrepareBeagleInstance

SpecBeagle == Init /\ [][NextBeagle]_vars

\* The likelihood and the gradient of the trees of a collection.
NextLikelihood ==
  \/ CallLogLikelihood
  \/ CallBranchGradient

SpecLikelihood == Init /\ [][NextLikelihood]_vars

----------------------------------------------------------------------------
\* Vocabulary of the properties.

Built == pc = "built"

NodeIds == 0..(NodeCount - 1)

\* The ids of the non-fake nodes.
RealNodes == taxon_count_..(NodeCount - 1)

LeafwardNeighbours(n) ==
  Range(dag_nodes_[n].leafward_sorted) \cup Range(dag_nodes_[n].leafward_rotated)

RootwardNeighbours(n) ==
  Range(dag_nodes_[n].rootward_sorted) \cup Range(dag_nodes_[n].rootward_rotated)

RECURSIVE LeafwardClosure(_)
LeafwardClosure(S) ==
  LET next == S \cup UNION {LeafwardNeighbours(n) : n \in S}
  IN IF next = S THEN S ELSE LeafwardClosure(next)

\* The nodes reachable from n by one or more leafward edges.
LeafwardReachable(n) == LeafwardClosure(LeafwardNeighbours(n))

\* The root subsplits of the sample.
RootSubsplits == {RootSubsplit(rootsplits_[k]) : k \in DOMAIN rootsplits_}

IsRootsplitNode(n) == dag_nodes_[n].subsplit \in RootSubsplits

\* Some non-fake node has several parents.
SharedRealNode == \E n \in RealNodes : Cardinality(RootwardNeighbours(n)) >= 2

\* The edges of the DAG as <<parent id, child id, rotated>>.
DagEdges ==
  UNION { {<<p, dag_nodes_[p].leafward_sorted[k], FALSE>> :
             k \in DOMAIN dag_nodes_[p].leafward_sorted}
          \cup {<<p, dag_nodes_[p].leafward_rotated[k], TRUE>> :
                  k \in DOMAIN dag_nodes_[p].leafward_rotated} : p \in NodeIds }

Positions(ops) == 1..Len(ops)

IsMultiplyInto(o, dest) == o.op = "Multiply" /\ o.dest = dest

IsZeroOf(o, dest) == o.op = "Zero" /\ o.dest = dest

Returns(call) == Built /\ result.call = call

----------------------------------------------------------------------------
\* C1: after construction gpcsp_indexer_ is injective, its keys are the root
\* subsplits and the PCSPs of the DAG edges, and its values are exactly
\* 0 .. GeneralizedPCSPCount() - 1.
C1_IndexerBijection ==
  Built =>
    /\ \A k1, k2 \in DOMAIN gpcsp_indexer_ :
         gpcsp_indexer_[k1] = gpcsp_indexer_[k2] => k1 = k2
    /\ Range(gpcsp_indexer_) = 0..(GeneralizedPCSPCount - 1)
    /\ Cardinality(DOMAIN gpcsp_indexer_) = GeneralizedPCSPCount
    /\ DOMAIN gpcsp_indexer_ =
         RootSubsplits \cup {EdgePCSP(e[1], e[2], e[3]) : e \in DagEdges}

C1_Witness == Built /\ SharedRealNode /\ Size(rootsplits_) >= 2

\* C2: after construction a non-fake node's id is greater than the id of every
\* node reachable from it by leafward edges, and the fake subsplit of taxon i
\* is node i, the fake nodes being exactly the ids 0 .. T-1.
C2_PostOrderIds ==
  Built =>
    /\ \A n \in RealNodes : \A d \in LeafwardReachable(n) : d < n
    /\ \A i \in 0..(taxon_count_ - 1) :
         i \in NodeIds /\ dag_nodes_[i].subsplit = FakeSubsplit(i) /\ dag_nodes_[i].id = i
    /\ \A n \in RealNodes : dag_nodes_[n].subsplit[1] # {}

C2_Witness ==
  /\ Built /\ Size(rootsplits_) >= 2
  /\ \E n \in RealNodes :
       /\ Cardinality(RootwardNeighbours(n)) >= 2
       /\ \E r1, r2 \in RealNodes :
            r1 # r2 /\ IsRootsplitNode(r1) /\ IsRootsplitNode(r2)
            /\ n \in LeafwardReachable(r1) /\ n \in LeafwardReachable(r2)

\* C3: the sequences of BranchLengthOptimization and SBNParameterOptimization
\* hold exactly one Multiply into P(n) for every non-fake node n and exactly
\* one Zero of R_HAT(n) for every node n that is not a rootsplit node.
C3_ScheduledOnce ==
  (Returns("BranchLengthOptimization") \/ Returns("SBNParameterOptimization")) =>
    /\ result.status = "ok"
    /\ \A n \in RealNodes :
         Cardinality({i \in Positions(result.value) :
                        IsMultiplyInto(result.value[i], GetPLVIndex("P", n))}) = 1
    /\ \A n \in NodeIds :
         ~IsRootsplitNode(n) =>
           Cardinality({i \in Positions(result.value) :
                          IsZeroOf(result.value[i], GetPLVIndex("R_HAT", n))}) = 1

C3_Witness == Returns("BranchLengthOptimization") /\ SharedRealNode

\* The buffer an edge's operations read on the parent side.
ParentBuffer(e) == GetPLVIndex(IF e[3] THEN "R_TILDE" ELSE "R", e[1])

EdgeIndex(e) == gpcsp_indexer_[EdgePCSP(e[1], e[2], e[3])]

IsOptimizeOf(o, e) ==
  o.op = "OptimizeBranchLength" /\ o.gpcsp = EdgeIndex(e)
  /\ o.leafward = GetPLVIndex("P", e[2]) /\ o.rootward = ParentBuffer(e)

\* The op that accumulates the parent buffer of edge e into R_HAT of its child.
IsRHatAccumulationOf(o, e) ==
  o.op = "EvolvePLVWeightedBySBNParameter" /\ o.gpcsp = EdgeIndex(e)
  /\ o.dest = GetPLVIndex("R_HAT", e[2]) /\ o.src = ParentBuffer(e)

WritesTo(o, buffer) ==
  o.op \in {"Zero", "Multiply", "EvolvePLVWeightedBySBNParameter"} /\ o.dest = buffer

MultiplyBefore(ops, i, dest) == \E j \in 1..(i - 1) : IsMultiplyInto(ops[j], dest)

IsRootSortedEdge(e) == IsRootsplitNode(e[1]) /\ ~e[3]

\* C4 (as stated): in the BranchLengthOptimization sequence every
\* OptimizeBranchLength of an edge (p, c) is preceded by a Multiply into the
\* parent buffer it reads and, when c is not a leaf, by the Multiply into P(c),
\* the sorted edges of rootsplit nodes included.
C4_EveryEdgePrecededByMultiply ==
  Returns("BranchLengthOptimization") =>
    \A e \in DagEdges : \A i \in Positions(result.value) :
      IsOptimizeOf(result.value[i], e) =>
        /\ MultiplyBefore(result.value, i, ParentBuffer(e))
        /\ ~IsLeaf(dag_nodes_[e[2]]) =>
             MultiplyBefore(result.value, i, GetPLVIndex("P", e[2]))

\* C4 (amended): every edge has exactly one OptimizeBranchLength; it is
\* preceded by the Multiply into P(c) when c is not a leaf, and by a Multiply
\* into the parent buffer unless the edge is a sorted edge of a rootsplit
\* node, in which case no Multiply into R(p) precedes it.
C4_PrecededByMultiplyExceptRootSorted ==
  Returns("BranchLengthOptimization") =>
    /\ result.status = "ok"
    /\ \A e \in DagEdges :
         /\ Cardinality({i \in Positions(result.value) :
                           IsOptimizeOf(result.value[i], e)}) = 1
         /\ \A i \in Positions(result.value) :
              IsOptimizeOf(result.value[i], e) =>
                /\ MultiplyBefore(result.value, i, ParentBuffer(e)) <=> ~IsRootSortedEdge(e)
                /\ ~IsLeaf(dag_nodes_[e[2]]) =>
                     MultiplyBefore(result.value, i, GetPLVIndex("P", e[2]))

C4_Witness ==
  /\ Returns("BranchLengthOptimization") /\ result.status = "ok"
  /\ \E e \in DagEdges : IsRootSortedEdge(e) /\ ~IsLeaf(dag_nodes_[e[2]])
  /\ \E e \in DagEdges : ~IsRootsplitNode(e[1]) /\ e[3] /\ ~IsLeaf(dag_nodes_[e[2]])

\* C5 (as stated): in the BranchLengthOptimization sequence, for every edge
\* (p, c), no op that writes the parent buffer appears after the op that
\* accumulates that buffer into R_HAT(c).
C5_NoWriteAfterAccumulation ==
  Returns("BranchLengthOptimization") =>
    \A e \in DagEdges : \A i \in Positions(result.value) :
      IsRHatAccumulationOf(result.value[i], e) =>
        \A j \in Positions(result.value) :
          WritesTo(result.value[j], ParentBuffer(e)) => j < i

\* The position of the one Zero of the given buffer.
ZeroPosition(ops, buffer) == CHOOSE i \in Positions(ops) : IsZeroOf(ops[i], buffer)

\* C5 (amended): every edge (p, c) has exactly one op accumulating its parent
\* buffer into R_HAT(c).  For a sorted edge a Multiply into R(p) follows it.
\* For a rotated edge a write of R_TILDE(p) follows it exactly when it comes
\* before p's rotated child loop starts, that is before the Zero of
\* P_HAT_TILDE(p).
C5_AccumulationVersusLaterWrites ==
  Returns("BranchLengthOptimization") =>
    /\ result.status = "ok"
    /\ \A e \in DagEdges :
         /\ Cardinality({i \in Positions(result.value) :
                           IsRHatAccumulationOf(result.value[i], e)}) = 1
         /\ \A i \in Positions(result.value) :
              IsRHatAccumulationOf(result.value[i], e) =>
                IF e[3]
                THEN (\E j \in (i + 1)..Len(result.value) :
                        WritesTo(result.value[j], ParentBuffer(e)))
                     <=> i < ZeroPosition(result.value, GetPLVIndex("P_HAT_TILDE", e[1]))
                ELSE \E j \in (i + 1)..Len(result.value) :
                       IsMultiplyInto(result.value[j], ParentBuffer(e))

C5_Witness ==
  /\ Returns("BranchLengthOptimization") /\ result.status = "ok"
  /\ \E e1, e2 \in DagEdges : \E i1, i2 \in Positions(result.value) :
       /\ e1[3] /\ e2[3]
       /\ IsRHatAccumulationOf(result.value[i1], e1)
       /\ IsRHatAccumulationOf(result.value[i2], e2)
       /\ i1 < ZeroPosition(result.value, GetPLVIndex("P_HAT_TILDE", e1[1]))
       /\ i2 > ZeroPosition(result.value, GetPLVIndex("P_HAT_TILDE", e2[1]))

\* Every node is in the returned visit order exactly once.
VisitsEveryNodeOnce ==
  Len(result.value) = NodeCount /\ Range(result.value) = NodeIds

\* C6 (as stated): in the order of LeafwardPassTraversal every node appears
\* after all of its leafward children.
C6_AfterLeafwardChildren ==
  Returns("LeafwardPassTraversal") =>
    \A i, j \in Positions(result.value) :
      result.value[j] \in LeafwardNeighbours(result.value[i]) => j < i

\* C6 (amended): the order of LeafwardPassTraversal holds every node once, and
\* every node appears after all the nodes it is reachable from by leafward
\* edges (its rootward neighbours and their ancestors).
C6_AfterRootwardAncestors ==
  Returns("LeafwardPassTraversal") =>
    /\ result.status = "ok"
    /\ VisitsEveryNodeOnce
    /\ \A i, j \in Positions(result.value) :
         result.value[j] \in LeafwardReachable(result.value[i]) => i < j

C6_Witness ==
  /\ Returns("LeafwardPassTraversal") /\ result.status = "ok"
  /\ SharedRealNode /\ Size(rootsplits_) >= 2

\* C7 (as stated): in the order of RootwardPassTraversal every node appears
\* after all the nodes it is reachable from by leafward edges.
C7_AfterAncestors ==
  Returns("RootwardPassTraversal") =>
    \A i, j \in Positions(result.value) :
      result.value[j] \in LeafwardReachable(result.value[i]) => i < j

\* C7 (amended): the order of RootwardPassTraversal holds every node once, and
\* every node appears after all the nodes reachable from it by leafward edges
\* (its leafward children and their descendants).
C7_AfterDescendants ==
  Returns("RootwardPassTraversal") =>
    /\ result.status = "ok"
    /\ VisitsEveryNodeOnce
    /\ \A i, j \in Positions(result.value) :
         result.value[j] \in LeafwardReachable(result.value[i]) => j < i

C7_Witness ==
  /\ Returns("RootwardPassTraversal") /\ result.status = "ok"
  /\ SharedRealNode /\ Size(rootsplits_) >= 2

\* C8: after construction c is in p's leafward-sorted list iff p is in c's
\* rootward-sorted list, likewise for the rotated lists, and the fake nodes
\* have empty leafward lists.
C8_EdgeSymmetry ==
  Built =>
    /\ \A p, c \in NodeIds :
         /\ c \in Range(dag_nodes_[p].leafward_sorted)
              <=> p \in Range(dag_nodes_[c].rootward_sorted)
         /\ c \in Range(dag_nodes_[p].leafward_rotated)
              <=> p \in Range(dag_nodes_[c].rootward_rotated)
    /\ \A i \in 0..(taxon_count_ - 1) : LeafwardNeighbours(i) = {}

C8_Witness ==
  Built /\ \E c \in NodeIds :
             Size(dag_nodes_[c].rootward_sorted) >= 1
             /\ Size(dag_nodes_[c].rootward_rotated) >= 1

\* The offsets the index scheme is documented with.
PLVOffset(k) ==
  CASE k = "P" -> 0 [] k = "P_HAT" -> 1 [] k = "P_HAT_TILDE" -> 2
    [] k = "R_HAT" -> 3 [] k = "R" -> 4 [] k = "R_TILDE" -> 5

\* C9: for the N nodes of the DAG GetPLVIndex is injective on kind and node
\* id, lies in 0 .. 6N-1 and equals offset(kind) * N + id.
C9_PLVIndexNeverAliases ==
  Built =>
    LET index == [k \in PLVTypes, i \in NodeIds |-> GetPLVIndex(k, i)]
    IN \* injective: as many distinct results as (kind, id) pairs
       /\ Cardinality(Range(index)) = Cardinality(PLVTypes) * NodeCount
       /\ \A a \in DOMAIN index :
            /\ index[a] \in 0..(6 * NodeCount - 1)
            /\ index[a] = PLVOffset(a[1]) * NodeCount + a[2]

C9_Witness ==
  /\ Returns("BranchLengthOptimization")
  /\ \E i \in Positions(result.value) :
       IsMultiplyInto(result.value[i], GetPLVIndex("R_TILDE", NodeCount - 1))
  /\ NodeCount >= 2 * taxon_count_

\* C10: after construction, for every non-fake node the range recorded under
\* its subsplit is as long as its leafward-sorted list and the range recorded
\* under its rotated subsplit as long as its leafward-rotated list.
C10_RangeLengths ==
  Built =>
    \A n \in RealNodes :
      LET node == dag_nodes_[n]
          sorted == GetBitset(node, FALSE)
          rotated == GetBitset(node, TRUE)
      IN /\ sorted \in DOMAIN subsplit_to_range_
         /\ rotated \in DOMAIN subsplit_to_range_
         /\ subsplit_to_range_[sorted][2] - subsplit_to_range_[sorted][1]
              = Size(node.leafward_sorted)
         /\ subsplit_to_range_[rotated][2] - subsplit_to_range_[rotated][1]
              = Size(node.leafward_rotated)
         /\ (subsplit_to_range_[sorted][2] - subsplit_to_range_[sorted][1])
            + (subsplit_to_range_[rotated][2] - subsplit_to_range_[rotated][1])
              = Cardinality(Range(node.leafward_sorted))
                + Cardinality(Range(node.leafward_rotated))

C10_Witness ==
  Built /\ \E n \in RealNodes :
             Size(dag_nodes_[n].leafward_sorted) >= 2
             /\ Size(dag_nodes_[n].leafward_rotated) >= 1

----------------------------------------------------------------------------
\* The children recorded under the key s of subsplit_to_range_: the leafward
\* list of the node and orientation whose bitset is s.
ChildrenOfKey(s) ==
  UNION {Range(IF rot THEN dag_nodes_[n].leafward_rotated
                      ELSE dag_nodes_[n].leafward_sorted) :
           <<n, rot>> \in {x \in RealNodes \X BOOLEAN :
                             GetBitset(dag_nodes_[x[1]], x[2]) = s}}

RangeSlots(s) == subsplit_to_range_[s][1]..(subsplit_to_range_[s][2] - 1)

RootsplitSlots == 0..(Size(rootsplits_) - 1)

\* C11: after construction every range of subsplit_to_range_ is non-empty and
\* is the set of gpcsp_indexer_ values of its key's children; the ranges are
\* pairwise disjoint and with the rootsplit block [0, R) partition
\* [0, GeneralizedPCSPCount()); BuildUniformQ gives every slot the value of the
\* one block that holds it.
C11_RangesPartition ==
  /\ Built =>
       /\ \A s \in DOMAIN subsplit_to_range_ :
            /\ RangeSlots(s) # {}
            /\ \A c \in ChildrenOfKey(s) :
                 (s \o dag_nodes_[c].subsplit) \in DOMAIN gpcsp_indexer_
            /\ RangeSlots(s) = {gpcsp_indexer_[s \o dag_nodes_[c].subsplit] :
                                  c \in ChildrenOfKey(s)}
            /\ RangeSlots(s) \cap RootsplitSlots = {}
       /\ \A s1, s2 \in DOMAIN subsplit_to_range_ :
            s1 # s2 => RangeSlots(s1) \cap RangeSlots(s2) = {}
       /\ RootsplitSlots \cup UNION {RangeSlots(s) : s \in DOMAIN subsplit_to_range_}
            = 0..(GeneralizedPCSPCount - 1)
  /\ Returns("BuildUniformQ") =>
       /\ result.status = "ok"
       /\ DOMAIN result.value = 0..(GeneralizedPCSPCount - 1)
       /\ \A i \in RootsplitSlots : result.value[i] = Size(rootsplits_)
       /\ \A s \in DOMAIN subsplit_to_range_ : \A i \in RangeSlots(s) :
            result.value[i] = Cardinality(RangeSlots(s))

C11_Witness ==
  /\ Returns("BuildUniformQ") /\ result.status = "ok"
  /\ \E s \in DOMAIN subsplit_to_range_ : Cardinality(RangeSlots(s)) >= 2

RECURSIVE RangeLengthSum(_)
RangeLengthSum(keys) ==
  IF keys = {} THEN 0
  ELSE LET s == CHOOSE k \in keys : TRUE
       IN (subsplit_to_range_[s][2] - subsplit_to_range_[s][1])
          + RangeLengthSum(keys \ {s})

\* C12: GeneralizedPCSPCount() is R plus the sum of the lengths of the ranges
\* of subsplit_to_range_, and the number of harvested PCSPs is the number of
\* edges between non-fake nodes.
C12_CountMatchesRanges ==
  Built =>
    /\ GeneralizedPCSPCount
         = Size(rootsplits_) + RangeLengthSum(DOMAIN subsplit_to_range_)
    /\ GeneralizedPCSPCount
         = RootsplitAndPCSPCount
           + Cardinality({e \in DagEdges : e[2] < taxon_count_})
    /\ RootsplitAndPCSPCount - Size(rootsplits_)
         = Cardinality({e \in DagEdges : e[2] >= taxon_count_})
    /\ Cardinality(DOMAIN index_to_child_)
         = Cardinality({e \in DagEdges : e[2] >= taxon_count_})

C12_Witness ==
  /\ Built
  /\ \E e \in DagEdges : e[2] >= taxon_count_
  /\ \E s \in DOMAIN subsplit_to_range_ : Cardinality(RangeSlots(s)) >= 2

\* C13: a DAG built from one fully resolved rooted binary topology on T taxa
\* has one rootsplit, 2T - 1 nodes, one sorted and one rotated child per
\* non-fake node, and GeneralizedPCSPCount() = 1 + 2(T - 1).
C13_SingleTopology ==
  (Built /\ Len(tree_collection.trees) = 1) =>
    /\ Size(rootsplits_) = 1
    /\ NodeCount = 2 * taxon_count_ - 1
    /\ \A n \in RealNodes :
         Size(dag_nodes_[n].leafward_sorted) = 1
         /\ Size(dag_nodes_[n].leafward_rotated) = 1
    /\ GeneralizedPCSPCount = 1 + 2 * (taxon_count_ - 1)

C13_Witness == Built /\ Len(tree_collection.trees) = 1 /\ taxon_count_ = 4

\* The operation-vector generators.
Generators ==
  {"ComputeLikelihoods", "RootwardPass", "LeafwardPass", "SetRootwardZero",
   "SetLeafwardZero", "BranchLengthOptimization", "SBNParameterOptimization"}

DagUnchanged ==
  UNCHANGED <<taxon_count_, rootsplits_, parent_to_range_, index_to_child_,
              rootsplit_and_pcsp_count_, dag_nodes_, subsplit_to_index_,
              gpcsp_indexer_, subsplit_to_range_>>

C15_LeafAndRootTests ==
  Built =>
    \A n \in NodeIds :
      /\ LeafwardNeighbours(n) = {} <=> n < taxon_count_
      /\ RootwardNeighbours(n) = {} <=> IsRootsplitNode(n)
      /\ IsLeaf(dag_nodes_[n]) <=> n < taxon_count_
      /\ IsRoot(dag_nodes_[n]) <=> IsRootsplitNode(n)

C15_Witness ==
  /\ Built /\ Size(rootsplits_) >= 2
  /\ \E n \in RealNodes : ~IsRootsplitNode(n)

\* C16: after construction node i has id i, no two nodes hold the same
\* subsplit, and subsplit_to_index_ maps exactly the nodes' subsplits, each to
\* its node's id.
C16_IndexConsistentWithArena ==
  Built =>
    /\ DOMAIN dag_nodes_ = 0..(NodeCount - 1)
    /\ \A i \in NodeIds : dag_nodes_[i].id = i
    /\ \A i, j \in NodeIds :
         dag_nodes_[i].subsplit = dag_nodes_[j].subsplit => i = j
    /\ DOMAIN subsplit_to_index_ = {dag_nodes_[i].subsplit : i \in NodeIds}
    /\ \A i \in NodeIds : subsplit_to_index_[dag_nodes_[i].subsplit] = i
    /\ \A s1, s2 \in DOMAIN subsplit_to_index_ :
         subsplit_to_index_[s1] = subsplit_to_index_[s2] => s1 = s2

C16_Witness ==
  /\ Built /\ Size(rootsplits_) >= 2
  /\ \E n \in RealNodes :
       Size(dag_nodes_[n].rootward_sorted) + Size(dag_nodes_[n].rootward_rotated) >= 2

EdgeCount == Cardinality(DagEdges)

RootNode(k) == subsplit_to_index_[RootSubsplit(rootsplits_[k])]

\* The edge a Likelihood op stands for, found through its parameter index.
EdgeOfLikelihood(o) == CHOOSE e \in DagEdges : EdgeIndex(e) = o.dest

\* The place of an edge in its parent's leafward list.
PlaceInList(e) ==
  LET list == IF e[3] THEN dag_nodes_[e[1]].leafward_rotated
                      ELSE dag_nodes_[e[1]].leafward_sorted
  IN CHOOSE k \in DOMAIN list : list[k] = e[2]

\* e1 is emitted before e2 by a walk over the non-fake nodes in ascending id,
\* sorted children before rotated ones, each list in its order.
EdgeBefore(e1, e2) ==
  \/ e1[1] < e2[1]
  \/ e1[1] = e2[1] /\ ~e1[3] /\ e2[3]
  \/ e1[1] = e2[1] /\ e1[3] = e2[3] /\ PlaceInList(e1) < PlaceInList(e2)

\* C17: ComputeLikelihoods returns one Likelihood op per edge, reading R or
\* R_TILDE of the parent and P of the child, in the order of the non-fake
\* nodes, sorted before rotated children, then one IncrementMarginalLikelihood
\* per rootsplit in rootsplit order; every parameter index from R on occurs in
\* exactly one Likelihood op.
C17_ComputeLikelihoodsShape ==
  Returns("ComputeLikelihoods") =>
    /\ result.status = "ok"
    /\ Len(result.value) = EdgeCount + Size(rootsplits_)
    /\ \A i \in 1..EdgeCount :
         /\ result.value[i].op = "Likelihood"
         /\ \E e \in DagEdges :
              /\ e[1] >= taxon_count_
              /\ result.value[i].dest = EdgeIndex(e)
              /\ result.value[i].parent = ParentBuffer(e)
              /\ result.value[i].child = GetPLVIndex("P", e[2])
    /\ \A i, j \in 1..EdgeCount :
         i < j => EdgeBefore(EdgeOfLikelihood(result.value[i]),
                             EdgeOfLikelihood(result.value[j]))
    /\ \A k \in 0..(Size(rootsplits_) - 1) :
         result.value[EdgeCount + 1 + k]
           = IncrementMarginalLikelihood(GetPLVIndex("R_HAT", RootNode(k)), k,
                                         GetPLVIndex("P", RootNode(k)))
    /\ \A x \in Size(rootsplits_)..(GeneralizedPCSPCount - 1) :
         Cardinality({i \in Positions(result.value) :
                        result.value[i].op = "Likelihood"
                        /\ result.value[i].dest = x}) = 1

C17_Witness ==
  /\ Returns("ComputeLikelihoods") /\ result.status = "ok"
  /\ Size(rootsplits_) >= 2 /\ SharedRealNode

IsIncrement(o) == o.op = "IncrementMarginalLikelihood"

\* The position of the IncrementMarginalLikelihood op of rootsplit k.
IncrementPosition(ops, k) ==
  CHOOSE i \in Positions(ops) :
    ops[i] = IncrementMarginalLikelihood(GetPLVIndex("R_HAT", RootNode(k)), k,
                                         GetPLVIndex("P", RootNode(k)))

\* C18 (as stated): in the SBNParameterOptimization sequence there is one
\* IncrementMarginalLikelihood per rootsplit, no op of the recursive pass
\* comes after one of them, and the last op is UpdateSBNProbabilities over
\* [0, R).
C18_IncrementsAfterWholePass ==
  Returns("SBNParameterOptimization") =>
    /\ Cardinality({i \in Positions(result.value) : IsIncrement(result.value[i])})
         = Size(rootsplits_)
    /\ \A i, j \in Positions(result.value) :
         (IsIncrement(result.value[i]) /\ i < j) =>
           IsIncrement(result.value[j]) \/ j = Len(result.value)
    /\ result.value[Len(result.value)]
         = UpdateSBNProbabilities(0, Size(rootsplits_))

\* C18 (amended): there is one IncrementMarginalLikelihood per rootsplit, in
\* rootsplit order; the one of rootsplit k comes right after the Multiply into
\* P of its node, which ends that node's schedule, and right before the first
\* op of the next rootsplit's schedule; the last one is followed only by the
\* final UpdateSBNProbabilities over [0, R).
C18_IncrementAfterEachRoot ==
  Returns("SBNParameterOptimization") =>
    /\ result.status = "ok"
    /\ Cardinality({i \in Positions(result.value) : IsIncrement(result.value[i])})
         = Size(rootsplits_)
    /\ \A k \in 0..(Size(rootsplits_) - 1) :
         /\ \E i \in Positions(result.value) :
              result.value[i]
                = IncrementMarginalLikelihood(GetPLVIndex("R_HAT", RootNode(k)), k,
                                              GetPLVIndex("P", RootNode(k)))
         /\ IncrementPosition(result.value, k) > 1
         /\ IsMultiplyInto(result.value[IncrementPosition(result.value, k) - 1],
                           GetPLVIndex("P", RootNode(k)))
         /\ k + 1 < Size(rootsplits_) =>
              result.value[IncrementPosition(result.value, k) + 1]
                = Zero(GetPLVIndex("P_HAT", RootNode(k + 1)))
         /\ k + 1 = Size(rootsplits_) =>
              IncrementPosition(result.value, k) = Len(result.value) - 1
    /\ result.value[Len(result.value)]
         = UpdateSBNProbabilities(0, Size(rootsplits_))

C18_Witness ==
  /\ Returns("SBNParameterOptimization") /\ result.status = "ok"
  /\ Size(rootsplits_) >= 2

LeafwardList(n, rot) ==
  IF rot THEN dag_nodes_[n].leafward_rotated ELSE dag_nodes_[n].leafward_sorted

\* The UpdateSBNProbabilities op over the child-index range of an orientation.
RangeUpdate(n, rot) ==
  UpdateSBNProbabilities(subsplit_to_range_[GetBitset(dag_nodes_[n], rot)][1],
                         subsplit_to_range_[GetBitset(dag_nodes_[n], rot)][2])

\* The last child of a child loop.
LastEdge(n, rot) == <<n, LeafwardList(n, rot)[Size(LeafwardList(n, rot)) - 1], rot>>

\* The Likelihood op that ends the child loop of an orientation.
IsLastLikelihood(o, n, rot) ==
  o.op = "Likelihood" /\ o.dest = EdgeIndex(LastEdge(n, rot))
  /\ o.parent = ParentBuffer(LastEdge(n, rot))

\* The op that follows a child loop and its renormalization: the Multiply
\* into R_TILDE after the sorted loop, into R after the rotated one.
IsLoopClosing(o, n, rot) ==
  IsMultiplyInto(o, GetPLVIndex(IF rot THEN "R" ELSE "R_TILDE", n))

\* C19 (as stated): in the SBNParameterOptimization sequence every non-fake
\* node has, for each orientation and whatever the number of children, an
\* UpdateSBNProbabilities over that child-index range right after the last op
\* of the child loop.
C19_UpdateAfterEveryChildLoop ==
  Returns("SBNParameterOptimization") =>
    \A n \in RealNodes : \A rot \in BOOLEAN :
      \E i \in 2..Len(result.value) :
        /\ result.value[i] = RangeUpdate(n, rot)
        /\ IsLastLikelihood(result.value[i - 1], n, rot)

\* C19 (amended): an orientation with more than one child has exactly one
\* UpdateSBNProbabilities over its range, right after the last op of its child
\* loop and right before the Multiply that follows the loop; an orientation
\* with one child has none, and the Multiply follows the loop directly.
C19_UpdateAfterLoopsWithSeveralChildren ==
  Returns("SBNParameterOptimization") =>
    /\ result.status = "ok"
    /\ \A n \in RealNodes : \A rot \in BOOLEAN :
         /\ Size(LeafwardList(n, rot)) >= 1
         /\ Cardinality({i \in Positions(result.value) :
                           result.value[i] = RangeUpdate(n, rot)})
              = IF Size(LeafwardList(n, rot)) > 1 THEN 1 ELSE 0
         /\ \E i \in 1..(Len(result.value) - 2) :
              /\ IsLastLikelihood(result.value[i], n, rot)
              /\ IF Size(LeafwardList(n, rot)) > 1
                 THEN /\ result.value[i + 1] = RangeUpdate(n, rot)
                      /\ IsLoopClosing(result.value[i + 2], n, rot)
                 ELSE IsLoopClosing(result.value[i + 1], n, rot)

C19_Witness ==
  /\ Returns("SBNParameterOptimization") /\ result.status = "ok"
  /\ \E n \in RealNodes : Size(dag_nodes_[n].leafward_sorted) >= 2
  /\ \E n \in RealNodes : Size(dag_nodes_[n].leafward_rotated) = 1

RootwardKinds == {"P", "P_HAT", "P_HAT_TILDE"}

\* C20 (as stated): SetRootwardZero emits a Zero for P, P_HAT and P_HAT_TILDE
\* of every node, the fake-leaf nodes included.
C20_ZeroForEveryNode ==
  Returns("SetRootwardZero") =>
    \A n \in NodeIds : \A kind \in RootwardKinds :
      \E i \in Positions(result.value) :
        IsZeroOf(result.value[i], GetPLVIndex(kind, n))

\* C20 (amended): SetRootwardZero emits, for the non-fake nodes in ascending
\* id, a Zero of P, of P_HAT and of P_HAT_TILDE, and nothing else; the P_HAT
\* and P_HAT_TILDE of the fake-leaf nodes, which LeafwardPass and the two
\* schedulers read in their Multiply ops, get no Zero from it.
C20_ZeroForNonFakeNodesOnly ==
  /\ Returns("SetRootwardZero") =>
       /\ result.status = "ok"
       /\ Len(result.value) = 3 * (NodeCount - taxon_count_)
       /\ \A n \in RealNodes :
            LET base == 3 * (n - taxon_count_)
            IN /\ result.value[base + 1] = Zero(GetPLVIndex("P", n))
               /\ result.value[base + 2] = Zero(GetPLVIndex("P_HAT", n))
               /\ result.value[base + 3] = Zero(GetPLVIndex("P_HAT_TILDE", n))
       /\ \A n \in 0..(taxon_count_ - 1) : \A kind \in RootwardKinds :
            \A i \in Positions(result.value) :
              ~IsZeroOf(result.value[i], GetPLVIndex(kind, n))
  /\ (\/ Returns("LeafwardPass")
      \/ Returns("BranchLengthOptimization")
      \/ Returns("SBNParameterOptimization")) =>
       \A n \in 0..(taxon_count_ - 1) :
         /\ \E i \in Positions(result.value) :
              result.value[i] = Multiply(GetPLVIndex("R", n), GetPLVIndex("R_HAT", n),
                                         GetPLVIndex("P_HAT_TILDE", n))
         /\ \E i \in Positions(result.value) :
              result.value[i] = Multiply(GetPLVIndex("R_TILDE", n), GetPLVIndex("R_HAT", n),
                                         GetPLVIndex("P_HAT", n))

C20_Witness ==
  /\ Returns("SetRootwardZero") /\ result.status = "ok"
  /\ NodeCount >= taxon_count_ + 2 /\ taxon_count_ >= 3

----------------------------------------------------------------------------
LeafwardKinds == {"R_HAT", "R", "R_TILDE"}

IsSetToStationary(o) == o.op = "SetToStationaryDistribution"

\* C21: SetLeafwardZero emits a Zero of R_HAT, R and R_TILDE of every node and
\* exactly one SetToStationaryDistribution per rootsplit, on R_HAT of that
\* rootsplit's node; no Zero of a buffer follows the SetToStationaryDistribution
\* on that buffer.
C21_StationarySurvivesZeroing ==
  Returns("SetLeafwardZero") =>
    /\ result.status = "ok"
    /\ \A n \in NodeIds : \A kind \in LeafwardKinds :
         \E i \in Positions(result.value) :
           IsZeroOf(result.value[i], GetPLVIndex(kind, n))
    /\ Cardinality({i \in Positions(result.value) : IsSetToStationary(result.value[i])})
         = Size(rootsplits_)
    /\ \A k \in DOMAIN rootsplits_ :
         Cardinality({i \in Positions(result.value) :
                        /\ IsSetToStationary(result.value[i])
                        /\ result.value[i].dest = GetPLVIndex("R_HAT", RootNode(k))}) = 1
    /\ \A i, j \in Positions(result.value) :
         (IsSetToStationary(result.value[i]) /\ i < j) =>
           ~IsZeroOf(result.value[j], result.value[i].dest)

C21_Witness ==
  /\ Returns("SetLeafwardZero") /\ result.status = "ok"
  /\ Size(rootsplits_) >= 2
  /\ \E i \in Positions(result.value) : IsSetToStationary(result.value[i])

----------------------------------------------------------------------------
\* The sum of the first k entries of a sequence of numbers.
RECURSIVE PrefixSum(_, _)
PrefixSum(lens, k) == IF k = 0 THEN 0 ELSE PrefixSum(lens, k - 1) + lens[k]

\* The number of ops RootwardPass emits for node n.
RootwardBlockLength(n) ==
  IF LeafwardNeighbours(n) = {} THEN 0
  ELSE Size(dag_nodes_[n].leafward_sorted) + Size(dag_nodes_[n].leafward_rotated) + 1

\* C22: RootwardPass(visit_order) emits nothing for a leaf and, for every
\* other node n of the order, one EvolvePLVWeightedBySBNParameter into
\* P_HAT(n) per sorted child reading P(child), then one into P_HAT_TILDE(n)
\* per rotated child, then Multiply(P(n), P_HAT(n), P_HAT_TILDE(n)); the
\* parameter index is gpcsp_indexer_ of n's subsplit (rotated for the rotated
\* children) + the child's subsplit.
C22_RootwardPassBlocks ==
  (Built /\ result.call = "RootwardPass(visit_order)") =>
    /\ result.status = "ok"
    /\ LET order == result.value.visit_order
           ops == result.value.operations
           lens == [k \in 1..Len(order) |-> RootwardBlockLength(order[k])]
       IN /\ Len(ops) = PrefixSum(lens, Len(order))
          /\ \A k \in 1..Len(order) :
               LET n == order[k]
                   base == PrefixSum(lens, k - 1)
                   sorted == dag_nodes_[n].leafward_sorted
                   rotated == dag_nodes_[n].leafward_rotated
               IN LeafwardNeighbours(n) # {} =>
                    /\ \A i \in DOMAIN sorted :
                         ops[base + 1 + i]
                           = EvolvePLVWeightedBySBNParameter(
                               GetPLVIndex("P_HAT", n),
                               gpcsp_indexer_[dag_nodes_[n].subsplit
                                              \o dag_nodes_[sorted[i]].subsplit],
                               GetPLVIndex("P", sorted[i]))
                    /\ \A i \in DOMAIN rotated :
                         ops[base + Size(sorted) + 1 + i]
                           = EvolvePLVWeightedBySBNParameter(
                               GetPLVIndex("P_HAT_TILDE", n),
                               gpcsp_indexer_[RotateSubsplit(dag_nodes_[n].subsplit)
                                              \o dag_nodes_[rotated[i]].subsplit],
                               GetPLVIndex("P", rotated[i]))
                    /\ ops[base + lens[k]]
                         = Multiply(GetPLVIndex("P", n), GetPLVIndex("P_HAT", n),
                                    GetPLVIndex("P_HAT_TILDE", n))

C22_Witness ==
  /\ Built /\ result.call = "RootwardPass(visit_order)" /\ result.status = "ok"
  /\ \E k1, k2 \in 1..Len(result.value.visit_order) :
       /\ k1 < k2
       /\ result.value.visit_order[k1] < taxon_count_
       /\ Size(dag_nodes_[result.value.visit_order[k2]].leafward_sorted) >= 2

\* The number of ops LeafwardPass emits for node n.
LeafwardBlockLength(n) ==
  Size(dag_nodes_[n].rootward_sorted) + Size(dag_nodes_[n].rootward_rotated) + 2

\* C23: LeafwardPass(visit_order) emits, for every node n of the order, one
\* EvolvePLVWeightedBySBNParameter into R_HAT(n) per rootward-sorted parent
\* reading that parent's R, then one per rootward-rotated parent reading its
\* R_TILDE, then Multiply(R(n), R_HAT(n), P_HAT_TILDE(n)) and
\* Multiply(R_TILDE(n), R_HAT(n), P_HAT(n)); a rootsplit node gets the two
\* Multiply ops only.
C23_LeafwardPassBlocks ==
  (Built /\ result.call = "LeafwardPass(visit_order)") =>
    /\ result.status = "ok"
    /\ LET order == result.value.visit_order
           ops == result.value.operations
           lens == [k \in 1..Len(order) |-> LeafwardBlockLength(order[k])]
       IN /\ Len(ops) = PrefixSum(lens, Len(order))
          /\ \A k \in 1..Len(order) :
               LET n == order[k]
                   base == PrefixSum(lens, k - 1)
                   sorted == dag_nodes_[n].rootward_sorted
                   rotated == dag_nodes_[n].rootward_rotated
               IN /\ \A i \in DOMAIN sorted :
                       ops[base + 1 + i]
                         = EvolvePLVWeightedBySBNParameter(
                             GetPLVIndex("R_HAT", n),
                             gpcsp_indexer_[dag_nodes_[sorted[i]].subsplit
                                            \o dag_nodes_[n].subsplit],
                             GetPLVIndex("R", sorted[i]))
                  /\ \A i \in DOMAIN rotated :
                       ops[base + Size(sorted) + 1 + i]
                         = EvolvePLVWeightedBySBNParameter(
                             GetPLVIndex("R_HAT", n),
                             gpcsp_indexer_[RotateSubsplit(dag_nodes_[rotated[i]].subsplit)
                                            \o dag_nodes_[n].subsplit],
                             GetPLVIndex("R_TILDE", rotated[i]))
                  /\ ops[base + lens[k] - 1]
                       = Multiply(GetPLVIndex("R", n), GetPLVIndex("R_HAT", n),
                                  GetPLVIndex("P_HAT_TILDE", n))
                  /\ ops[base + lens[k]]
                       = Multiply(GetPLVIndex("R_TILDE", n), GetPLVIndex("R_HAT", n),
                                  GetPLVIndex("P_HAT", n))
                  /\ IsRootsplitNode(n) => lens[k] = 2

C23_Witness ==
  /\ Built /\ result.call = "LeafwardPass(visit_order)" /\ result.status = "ok"
  /\ \E k1, k2, k3 \in 1..Len(result.value.visit_order) :
       /\ IsRootsplitNode(result.value.visit_order[k1])
       /\ result.value.visit_order[k2] < taxon_count_
       /\ Size(dag_nodes_[result.value.visit_order[k3]].rootward_sorted) >= 1
       /\ Size(dag_nodes_[result.value.visit_order[k3]].rootward_rotated) >= 1

----------------------------------------------------------------------------
\* The child subsplits ConnectNodes looks up for the non-fake nodes.
ConnectedChildren ==
  UNION { Range(GetChildrenSubsplits(GetBitset(dag_nodes_[n], rot), TRUE)) :
            <<n, rot>> \in (DOMAIN dag_nodes_ \ (0..(taxon_count_ - 1))) \X BOOLEAN }

----------------------------------------------------------------------------
IsEvolveInto(o, dest) == o.op = "EvolvePLVWeightedBySBNParameter" /\ o.dest = dest

\* C25: the sequences of BranchLengthOptimization and SBNParameterOptimization
\* hold no Zero and no EvolvePLVWeightedBySBNParameter (and no other write)
\* whose destination is R_HAT of a rootsplit node, and for every other node
\* the Zero of its R_HAT comes before every EvolvePLVWeightedBySBNParameter
\* into it.
C25_RootRHatUntouched ==
  (Returns("BranchLengthOptimization") \/ Returns("SBNParameterOptimization")) =>
    /\ result.status = "ok"
    /\ \A n \in NodeIds :
         IF IsRootsplitNode(n)
         THEN \A i \in Positions(result.value) :
                ~WritesTo(result.value[i], GetPLVIndex("R_HAT", n))
         ELSE /\ \E i \in Positions(result.value) :
                   IsEvolveInto(result.value[i], GetPLVIndex("R_HAT", n))
              /\ \A i \in Positions(result.value) :
                   IsEvolveInto(result.value[i], GetPLVIndex("R_HAT", n)) =>
                     \E j \in 1..(i - 1) :
                       IsZeroOf(result.value[j], GetPLVIndex("R_HAT", n))

C25_Witness ==
  /\ Returns("SBNParameterOptimization") /\ result.status = "ok"
  /\ Size(rootsplits_) >= 2
  /\ \E n \in NodeIds :
       /\ ~IsRootsplitNode(n)
       /\ Cardinality({i \in Positions(result.value) :
                        IsEvolveInto(result.value[i], GetPLVIndex("R_HAT", n))}) >= 2

----------------------------------------------------------------------------
\* C26: PrepareBeagleInstance aborts when the collection's taxon count
\* differs from the site pattern's sequence count, before any call on the
\* instance; when the counts are equal it sets the tip states of taxon
\* numbers 0, 1, ... in pattern order, one call per pattern, and then the
\* pattern weights, the category weights and the rates.
C26_AbortBeforeAnySetter ==
  beagle_instance.status # "created" =>
    LET site_pattern == beagle_instance.site_pattern
        calls == beagle_instance.calls
        count == Len(site_pattern.patterns)
    IN IF tree_collection.taxon_count # site_pattern.sequence_count
       THEN beagle_instance.status = "aborted" /\ calls = <<>>
       ELSE /\ beagle_instance.status = "prepared"
            /\ Len(calls) = count + 3
            /\ \A i \in 1..count :
                 calls[i] = BeagleSetTipStates(i - 1, site_pattern.patterns[i])
            /\ \A i \in (count + 1)..(count + 3) :
                 calls[i].call # "beagleSetTipStates"

C26_Witness ==
  /\ beagle_instance.status = "aborted"
  /\ Len(beagle_instance.site_pattern.patterns) >= 2
  /\ beagle_instance.site_pattern.sequence_count = tree_collection.taxon_count + 1

----------------------------------------------------------------------------
\* The rootsplit whose node owns the R_HAT buffer.
RootsplitOfRHat(buffer) ==
  CHOOSE i \in DOMAIN rootsplits_ : GetPLVIndex("R_HAT", RootNode(i)) = buffer

\* The rootsplit part of the indexer.
RootsplitsIndexedInOrder ==
  /\ \A i \in DOMAIN rootsplits_ :
       /\ RootSubsplit(rootsplits_[i]) \in DOMAIN gpcsp_indexer_
       /\ gpcsp_indexer_[RootSubsplit(rootsplits_[i])] = i
  /\ \A key \in DOMAIN gpcsp_indexer_ \ RootSubsplits :
       gpcsp_indexer_[key] >= Size(rootsplits_)

\* Every IncrementMarginalLikelihood op of the returned sequence carries the
\* index of the rootsplit whose buffers it names.
IncrementsCarryRootsplitIndex ==
  \A i \in Positions(result.value) :
    IsIncrement(result.value[i]) =>
      /\ \E k \in DOMAIN rootsplits_ :
           result.value[i].stationary = GetPLVIndex("R_HAT", RootNode(k))
      /\ result.value[i].rootsplit = RootsplitOfRHat(result.value[i].stationary)

\* Every SetToStationaryDistribution op of the returned sequence carries the
\* index of the rootsplit whose R_HAT it seeds.
StationaryCarriesRootsplitIndex ==
  \A i \in Positions(result.value) :
    IsSetToStationary(result.value[i]) =>
      /\ \E k \in DOMAIN rootsplits_ :
           result.value[i].dest = GetPLVIndex("R_HAT", RootNode(k))
      /\ result.value[i].root_gpcsp_idx = RootsplitOfRHat(result.value[i].dest)

\* C27: after construction the i-th rootsplit has parameter index i, every
\* other key has an index >= R, and i is the rootsplit index carried by the
\* IncrementMarginalLikelihood and SetToStationaryDistribution ops emitted for
\* that rootsplit.
C27_RootsplitsKeepTheirIndex ==
  /\ Built => RootsplitsIndexedInOrder
  /\ (\/ Returns("ComputeLikelihoods")
      \/ Returns("SBNParameterOptimization")) => IncrementsCarryRootsplitIndex
  /\ (\/ Returns("SetRhatToStationary")
      \/ Returns("SetLeafwardZero")) => StationaryCarriesRootsplitIndex

----------------------------------------------------------------------------
HarvestLength(s) == parent_to_range_[s][2] - parent_to_range_[s][1]

\* C28 (as stated): for every parent subsplit s of parent_to_range_,
\* subsplit_to_range_[s] is the same range, start and length, and for every
\* index j of it index_to_child_[j] is the child whose key s + child has
\* index j in gpcsp_indexer_.
C28_SameRangeAsHarvest ==
  Built =>
    \A s \in DOMAIN parent_to_range_ :
      /\ s \in DOMAIN subsplit_to_range_
      /\ subsplit_to_range_[s] = parent_to_range_[s]
      /\ \A j \in parent_to_range_[s][1]..(parent_to_range_[s][2] - 1) :
           /\ (s \o index_to_child_[j]) \in DOMAIN gpcsp_indexer_
           /\ gpcsp_indexer_[s \o index_to_child_[j]] = j

\* C28 (amended): for every parent subsplit s of parent_to_range_,
\* subsplit_to_range_[s] has the same length, whatever its start, and the
\* k-th child of the harvested range is the child whose key s + child has the
\* k-th index of the final range.
C28_SameLengthAndChildOrder ==
  Built =>
    \A s \in DOMAIN parent_to_range_ :
      /\ s \in DOMAIN subsplit_to_range_
      /\ subsplit_to_range_[s][2] - subsplit_to_range_[s][1] = HarvestLength(s)
      /\ \A k \in 0..(HarvestLength(s) - 1) :
           /\ (s \o index_to_child_[parent_to_range_[s][1] + k])
                \in DOMAIN gpcsp_indexer_
           /\ gpcsp_indexer_[s \o index_to_child_[parent_to_range_[s][1] + k]]
                = subsplit_to_range_[s][1] + k

C28_Witness ==
  /\ Built
  /\ \E s \in DOMAIN parent_to_range_ : HarvestLength(s) >= 2
  /\ Cardinality(DOMAIN parent_to_range_) >= 3

----------------------------------------------------------------------------
\* What the sample holds, read off the topologies: for every clade X of a
\* topology that is neither a leaf nor the root, the parent subsplit
\* sister + X with the child subsplit of X.
Topologies == Range(tree_collection.trees)

InnerClades(t) == {X \in t : Cardinality(X) >= 2 /\ X # Taxa}

\* The clade of t right above X.
CladeAbove(t, X) ==
  CHOOSE P \in t : /\ X \subseteq P /\ X # P
                    /\ \A Q \in t : (X \subseteq Q /\ X # Q) => P \subseteq Q

\* The child subsplit of clade X: its two halves, the one without X's lowest
\* taxon second.
SubsplitOfClade(t, X) ==
  LET low == CHOOSE C \in t : /\ C \subseteq X /\ C # X /\ MinOf(X) \in C
                               /\ \A D \in t : (C \subseteq D /\ D \subseteq X)
                                                  => (D = C \/ D = X)
  IN <<low, X \ low>>

HarvestedPairs ==
  UNION { { << <<CladeAbove(t, X) \ X, X>>, SubsplitOfClade(t, X) >> :
              X \in InnerClades(t) } : t \in Topologies }

HarvestedParents == {p[1] : p \in HarvestedPairs}

HarvestedChildren(s) == {p[2] : p \in {q \in HarvestedPairs : q[1] = s}}

\* The first topology of the sample with the given rootsplit.
FirstWithRootsplit(r) ==
  MinOf({i \in 1..Len(tree_collection.trees) :
           \E C \in tree_collection.trees[i] :
             /\ C \in {r, Taxa \ r}
             /\ CladeAbove(tree_collection.trees[i], C) = Taxa})

Processed == pc # "constructing"

HarvestSlots(s) == parent_to_range_[s][1]..(parent_to_range_[s][2] - 1)

\* C29: after ProcessTrees the distinct rootsplits are rootsplits_[0 .. R-1]
\* in harvest order; the ranges of parent_to_range_ are non-empty, pairwise
\* disjoint and consecutive and cover exactly R .. rootsplit_and_pcsp_count_-1;
\* index_to_child_ is defined exactly there; a parent's range is as long as
\* the number of its distinct harvested children.
C29_HarvestLayout ==
  Processed =>
    /\ taxon_count_ = tree_collection.taxon_count
    /\ DOMAIN rootsplits_ = 0..(Size(rootsplits_) - 1)
    /\ \A i, j \in DOMAIN rootsplits_ :
         i < j => /\ rootsplits_[i] # rootsplits_[j]
                  /\ FirstWithRootsplit(rootsplits_[i]) < FirstWithRootsplit(rootsplits_[j])
    /\ \A t \in Topologies : \E i \in DOMAIN rootsplits_ :
         \E C \in t : C \in {rootsplits_[i], Taxa \ rootsplits_[i]}
                       /\ CladeAbove(t, C) = Taxa
    /\ DOMAIN parent_to_range_ = HarvestedParents
    /\ \A s \in DOMAIN parent_to_range_ :
         /\ HarvestSlots(s) # {}
         /\ HarvestLength(s) = Cardinality(HarvestedChildren(s))
         /\ {index_to_child_[j] : j \in HarvestSlots(s)} = HarvestedChildren(s)
         /\ \/ parent_to_range_[s][1] = Size(rootsplits_)
            \/ \E s2 \in DOMAIN parent_to_range_ :
                 parent_to_range_[s2][2] = parent_to_range_[s][1]
    /\ \A s1, s2 \in DOMAIN parent_to_range_ :
         s1 # s2 => HarvestSlots(s1) \cap HarvestSlots(s2) = {}
    /\ UNION {HarvestSlots(s) : s \in DOMAIN parent_to_range_}
         = Size(rootsplits_)..(rootsplit_and_pcsp_count_ - 1)
    /\ DOMAIN index_to_child_ = Size(rootsplits_)..(rootsplit_and_pcsp_count_ - 1)

C29_Witness ==
  /\ pc = "processed"
  /\ Cardinality(DOMAIN parent_to_range_) >= 3
  /\ \E s \in DOMAIN parent_to_range_ : HarvestLength(s) >= 2

\* Every Bitset of length 2T read as a subsplit.
AllSubsplits == {s \in (SUBSET Taxa) \X (SUBSET Taxa) : s[1] \cap s[2] = {}}

\* C30: for a subsplit harvested as a parent GetChildrenSubsplits returns its
\* harvested children in index order, none of them fake, with or without
\* include_fake_subsplits; for any other subsplit it returns, with the flag,
\* the one fake subsplit of the second chunk when the first chunk is non-empty
\* and the second a single taxon, and nothing otherwise; without the flag it
\* returns nothing, so the DAG holds one fake node per taxon and no more.
C30_ChildLookupRule ==
  /\ Processed =>
       \A s \in AllSubsplits :
         IF s \in HarvestedParents
         THEN /\ GetChildrenSubsplits(s, TRUE) = GetChildrenSubsplits(s, FALSE)
              /\ DOMAIN GetChildrenSubsplits(s, TRUE) = 0..(HarvestLength(s) - 1)
              /\ \A i \in 0..(HarvestLength(s) - 1) :
                   GetChildrenSubsplits(s, TRUE)[i]
                     = index_to_child_[parent_to_range_[s][1] + i]
              /\ Range(GetChildrenSubsplits(s, TRUE)) = HarvestedChildren(s)
              /\ \A c \in Range(GetChildrenSubsplits(s, TRUE)) : c[1] # {}
         ELSE /\ Size(GetChildrenSubsplits(s, FALSE)) = 0
              /\ IF s[1] # {} /\ Cardinality(s[2]) = 1
                 THEN /\ Size(GetChildrenSubsplits(s, TRUE)) = 1
                      /\ GetChildrenSubsplits(s, TRUE)[0] = <<{}, s[2]>>
                 ELSE Size(GetChildrenSubsplits(s, TRUE)) = 0
  /\ pc \in {"nodes", "edges", "built"} =>
       /\ \A n \in DOMAIN dag_nodes_ : dag_nodes_[n].subsplit[1] = {} <=> n < taxon_count_
       /\ \A i \in 0..(taxon_count_ - 1) :
            Cardinality({n \in DOMAIN dag_nodes_ :
                           dag_nodes_[n].subsplit = <<{}, {i}>>}) = 1

C30_Witness ==
  /\ pc = "nodes"
  /\ \E s \in HarvestedParents : HarvestLength(s) >= 2
  /\ \E s \in AllSubsplits \ HarvestedParents :
       /\ s \in DOMAIN subsplit_to_index_
       /\ Size(GetChildrenSubsplits(s, TRUE)) = 1
       /\ Size(GetChildrenSubsplits(RotateSubsplit(s), TRUE)) = 1

\* C31: after BuildNodes every rootsplit node's id is greater than the id of
\* every node that is not a rootsplit node, whatever the number of rootsplits.
C31_RootsplitNodesTakeHigherIds ==
  pc \in {"nodes", "edges", "built"} =>
    \A r, n \in DOMAIN dag_nodes_ :
      (IsRootsplitNode(r) /\ ~IsRootsplitNode(n)) => n < r

IsEvolve(o) == o.op = "EvolvePLVWeightedBySBNParameter"

MultipliesInto(ops, dest) == {i \in Positions(ops) : IsMultiplyInto(ops[i], dest)}

\* C32: in the sequence of RootwardPass() every non-fake node has exactly one
\* Multiply into its P, and every EvolvePLVWeightedBySBNParameter that reads
\* P(c) of a non-leaf child c comes after the Multiply into P(c), also for
\* nodes shared by several parents and several rootsplits.
C32_RootwardPassReadsComputedP ==
  Returns("RootwardPass") =>
    /\ result.status = "ok"
    /\ \A n \in RealNodes :
         Cardinality(MultipliesInto(result.value, GetPLVIndex("P", n))) = 1
    /\ \A c \in RealNodes : \A i \in Positions(result.value) :
         (IsEvolve(result.value[i]) /\ result.value[i].src = GetPLVIndex("P", c))
           => \E j \in MultipliesInto(result.value, GetPLVIndex("P", c)) : j < i

C32_Witness ==
  /\ Returns("RootwardPass") /\ result.status = "ok" /\ Size(rootsplits_) >= 2
  /\ \E c \in RealNodes :
       /\ Cardinality(RootwardNeighbours(c)) >= 2
       /\ Cardinality({i \in Positions(result.value) :
                         IsEvolve(result.value[i])
                         /\ result.value[i].src = GetPLVIndex("P", c)}) >= 2

\* C33: in the sequence of LeafwardPass() every node, the leaves and the
\* rootsplit nodes included, has exactly one Multiply into its R and one into
\* its R_TILDE, and every EvolvePLVWeightedBySBNParameter that adds R(p) or
\* R_TILDE(p) of a parent p to a child's R_HAT comes after the Multiply into
\* the buffer it reads.
C33_LeafwardPassReadsComputedR ==
  Returns("LeafwardPass") =>
    /\ result.status = "ok"
    /\ \A n \in NodeIds :
         /\ Cardinality(MultipliesInto(result.value, GetPLVIndex("R", n))) = 1
         /\ Cardinality(MultipliesInto(result.value, GetPLVIndex("R_TILDE", n))) = 1
    /\ \A e \in DagEdges : \A i \in Positions(result.value) :
         (IsEvolve(result.value[i])
          /\ result.value[i].dest = GetPLVIndex("R_HAT", e[2])
          /\ result.value[i].src = ParentBuffer(e))
           => \E j \in MultipliesInto(result.value, ParentBuffer(e)) : j < i
    /\ \A i \in Positions(result.value) :
         IsEvolve(result.value[i]) =>
           \E e \in DagEdges : /\ result.value[i].dest = GetPLVIndex("R_HAT", e[2])
                               /\ result.value[i].src = ParentBuffer(e)

C33_Witness ==
  /\ Returns("LeafwardPass") /\ result.status = "ok" /\ Size(rootsplits_) >= 2
  /\ \E e1, e2 \in DagEdges :
       /\ e1[2] = e2[2] /\ e1[1] # e2[1] /\ e1[2] \in RealNodes
       /\ \E i1, i2 \in Positions(result.value) :
            /\ IsRHatAccumulationOf(result.value[i1], e1)
            /\ IsRHatAccumulationOf(result.value[i2], e2)

IsPermutationOfNodeIds(order) ==
  /\ Len(order) = NodeCount
  /\ \A i, j \in Positions(order) : order[i] = order[j] => i = j
  /\ \A n \in NodeIds : \E i \in Positions(order) : order[i] = n

\* C34: on a constructed DAG LeafwardPassTraversal and RootwardPassTraversal
\* end without a failed SafeInsert into the visited set and return every node
\* id of 0 .. N-1 exactly once; the nodes they start from cannot have been
\* entered before, a leaf having no leafward and a rootsplit node no rootward
\* neighbour.
C34_TraversalsArePermutations ==
  /\ (Returns("LeafwardPassTraversal") \/ Returns("RootwardPassTraversal")) =>
       /\ result.status = "ok"
       /\ IsPermutationOfNodeIds(result.value)
  /\ Built =>
       /\ \A n \in NodeIds : IsLeaf(dag_nodes_[n]) => LeafwardNeighbours(n) = {}
       /\ \A n \in NodeIds : IsRootsplitNode(n) => RootwardNeighbours(n) = {}
       /\ \A k1, k2 \in DOMAIN rootsplits_ :
            k1 # k2 => subsplit_to_index_[RootSubsplit(rootsplits_[k1])]
                         # subsplit_to_index_[RootSubsplit(rootsplits_[k2])]

C34_Witness ==
  /\ Returns("RootwardPassTraversal") /\ result.status = "ok"
  /\ Size(rootsplits_) >= 2
  /\ \E n \in RealNodes : \E p1, p2 \in RootwardNeighbours(n) :
       p1 # p2 /\ ~IsRootsplitNode(p1) /\ IsRootsplitNode(p2)

\* The parameter indices of the DAG edges.
EdgeIndices == Size(rootsplits_)..(GeneralizedPCSPCount - 1)

\* The buffer an edge's operations accumulate into on the parent side.
PHatBuffer(e) == GetPLVIndex(IF e[3] THEN "P_HAT_TILDE" ELSE "P_HAT", e[1])

\* The op that adds P of edge e's child into P_HAT or P_HAT_TILDE of its parent.
IsPHatAccumulationOf(o, e) ==
  IsEvolve(o) /\ o.gpcsp = EdgeIndex(e)
  /\ o.dest = PHatBuffer(e) /\ o.src = GetPLVIndex("P", e[2])

IsLikelihoodOf(o, e) ==
  o.op = "Likelihood" /\ o.dest = EdgeIndex(e)
  /\ o.parent = ParentBuffer(e) /\ o.child = GetPLVIndex("P", e[2])

\* C35: the BranchLengthOptimization sequence holds exactly one
\* OptimizeBranchLength per parameter index of R .. GeneralizedPCSPCount()-1,
\* the one of its DAG edge, directly followed by the EvolvePLVWeightedBySBNParameter
\* with the same index that adds P(child) into P_HAT(parent) for a sorted and
\* P_HAT_TILDE(parent) for a rotated edge, also when the child was scheduled
\* through another parent; the SBNParameterOptimization sequence holds for
\* every edge exactly one adjacent pair of that EvolvePLVWeightedBySBNParameter
\* and a Likelihood with the edge's index.
C35_OneOptimizationPerEdge ==
  /\ Returns("BranchLengthOptimization") =>
       /\ result.status = "ok"
       /\ {EdgeIndex(e) : e \in DagEdges} = EdgeIndices
       /\ \A i \in Positions(result.value) :
            result.value[i].op = "OptimizeBranchLength" =>
              /\ result.value[i].gpcsp \in EdgeIndices
              /\ i < Len(result.value)
              /\ IsEvolve(result.value[i + 1])
              /\ result.value[i + 1].gpcsp = result.value[i].gpcsp
       /\ \A e \in DagEdges :
            /\ Cardinality({i \in Positions(result.value) :
                              /\ result.value[i].op = "OptimizeBranchLength"
                              /\ result.value[i].gpcsp = EdgeIndex(e)}) = 1
            /\ \E i \in Positions(result.value) :
                 /\ IsOptimizeOf(result.value[i], e)
                 /\ i < Len(result.value)
                 /\ IsPHatAccumulationOf(result.value[i + 1], e)
  /\ Returns("SBNParameterOptimization") =>
       /\ result.status = "ok"
       /\ \A i \in Positions(result.value) :
            result.value[i].op = "Likelihood" => result.value[i].dest \in EdgeIndices
       /\ \A e \in DagEdges :
            /\ Cardinality({i \in Positions(result.value) :
                              /\ i < Len(result.value)
                              /\ IsEvolve(result.value[i])
                              /\ result.value[i].gpcsp = EdgeIndex(e)
                              /\ result.value[i + 1].op = "Likelihood"
                              /\ result.value[i + 1].dest = EdgeIndex(e)}) = 1
            /\ Cardinality({i \in Positions(result.value) :
                              /\ result.value[i].op = "Likelihood"
                              /\ result.value[i].dest = EdgeIndex(e)}) = 1
            /\ \E i \in Positions(result.value) :
                 /\ i < Len(result.value)
                 /\ IsPHatAccumulationOf(result.value[i], e)
                 /\ IsLikelihoodOf(result.value[i + 1], e)

C35_Witness ==
  /\ Returns("BranchLengthOptimization") /\ result.status = "ok"
  /\ \E e1, e2 \in DagEdges :
       /\ e1[2] = e2[2] /\ e1[1] # e2[1] /\ e1[2] \in RealNodes
       /\ \E i1, i2 \in Positions(result.value) :
            /\ IsOptimizeOf(result.value[i1], e1)
            /\ IsOptimizeOf(result.value[i2], e2)

IsUpdate(o) == o.op = "UpdateSBNProbabilities"

LikelihoodsBefore(ops, i, idx) ==
  {j \in 1..(i - 1) : ops[j].op = "Likelihood" /\ ops[j].dest = idx}

IncrementsBefore(ops, i, k) ==
  {j \in 1..(i - 1) : IsIncrement(ops[j]) /\ ops[j].rootsplit = k}

\* C36: the SBNParameterOptimization sequence ends with
\* UpdateSBNProbabilities(0, R), which has exactly one
\* IncrementMarginalLikelihood of every rootsplit index of 0 .. R-1 before it;
\* every other UpdateSBNProbabilities is over the child range of a parent and
\* has exactly one Likelihood of every parameter index of its range before it.
C36_RenormalizedAfterLikelihoods ==
  Returns("SBNParameterOptimization") =>
    /\ result.status = "ok"
    /\ Len(result.value) >= 1
    /\ result.value[Len(result.value)] = UpdateSBNProbabilities(0, Size(rootsplits_))
    /\ \A k \in DOMAIN rootsplits_ :
         Cardinality(IncrementsBefore(result.value, Len(result.value), k)) = 1
    /\ \A i \in 1..(Len(result.value) - 1) :
         IsUpdate(result.value[i]) =>
           /\ <<result.value[i].start, result.value[i].stop>> \in Range(subsplit_to_range_)
           /\ result.value[i].start >= Size(rootsplits_)
           /\ \A idx \in result.value[i].start..(result.value[i].stop - 1) :
                Cardinality(LikelihoodsBefore(result.value, i, idx)) = 1

C36_Witness ==
  /\ Returns("SBNParameterOptimization") /\ result.status = "ok"
  /\ \E i \in 1..(Len(result.value) - 1) :
       /\ IsUpdate(result.value[i])
       /\ result.value[i].stop - result.value[i].start >= 2
       /\ LikelihoodsBefore(result.value, i, result.value[i].start) # {}
       /\ LikelihoodsBefore(result.value, i, result.value[i].stop - 1) # {}

\* C37 (as stated): every UpdateSBNProbabilities(start, stop) of the
\* SBNParameterOptimization sequence has stop - start >= 2, over child ranges
\* and over the rootsplit range alike.
C37_EveryUpdateCoversTwo ==
  Returns("SBNParameterOptimization") =>
    \A i \in Positions(result.value) :
      IsUpdate(result.value[i]) => result.value[i].stop - result.value[i].start >= 2

\* C37 (amended): every UpdateSBNProbabilities over a child range has
\* stop - start >= 2; the sequence ends with UpdateSBNProbabilities(0, R) over
\* the rootsplit range whatever R >= 1 is, over a single entry when R = 1.
C37_ChildRangeUpdatesCoverTwo ==
  Returns("SBNParameterOptimization") =>
    /\ result.status = "ok"
    /\ Size(rootsplits_) >= 1
    /\ Len(result.value) >= 1
    /\ result.value[Len(result.value)] = UpdateSBNProbabilities(0, Size(rootsplits_))
    /\ \A i \in 1..(Len(result.value) - 1) :
         IsUpdate(result.value[i]) =>
           /\ result.value[i].start >= Size(rootsplits_)
           /\ result.value[i].stop - result.value[i].start >= 2

C37_Witness ==
  /\ Returns("SBNParameterOptimization") /\ result.status = "ok"
  /\ Size(rootsplits_) = 1
  /\ result.value[Len(result.value)].stop - result.value[Len(result.value)].start = 1
  /\ \E i \in 1..(Len(result.value) - 1) : IsUpdate(result.value[i])

RootsplitNodes == {n \in NodeIds : IsRootsplitNode(n)}

\* C38: after construction every node is a rootsplit node or reachable from
\* one by leafward edges, every non-fake node has a leafward-sorted and a
\* leafward-rotated child, every fake node has a rootward neighbour, and
\* subsplit_to_range_ has exactly two keys per non-fake node, its subsplit and
\* its rotated subsplit, both child_count > 0 tests of BuildPCSPIndexer having
\* passed.
C38_EveryNodeConnected ==
  Built =>
    /\ RootsplitNodes # {}
    /\ NodeIds = RootsplitNodes \cup UNION {LeafwardReachable(r) : r \in RootsplitNodes}
    /\ \A n \in RealNodes :
         /\ Size(dag_nodes_[n].leafward_sorted) >= 1
         /\ Size(dag_nodes_[n].leafward_rotated) >= 1
    /\ \A i \in 0..(taxon_count_ - 1) : RootwardNeighbours(i) # {}
    /\ DOMAIN subsplit_to_range_ =
         UNION {{dag_nodes_[n].subsplit, RotateSubsplit(dag_nodes_[n].subsplit)} :
                  n \in RealNodes}
    /\ Cardinality(DOMAIN subsplit_to_range_) = 2 * Cardinality(RealNodes)

C38_Witness ==
  /\ Built /\ Size(rootsplits_) >= 2
  /\ \E n \in RealNodes \ RootsplitNodes :
       Cardinality({r \in RootsplitNodes : n \in LeafwardReachable(r)}) = 1
  /\ \E i \in 0..(taxon_count_ - 1) : Cardinality(RootwardNeighbours(i)) >= 2

LikelihoodReturned == result.call \in {"LogLikelihood", "BranchGradient"}

\* The tips of the tree of the returned call, its operations and its instance.
TipsOfCall == LeafCount(result.value.tree)

OperationsOfCall == result.value.out.operations

InstanceOfCall == result.value.out.instance

\* The operations on the partials of the internal nodes, and those on the
\* upper partials, which lie one node count higher.
LowerOperations ==
  {i \in Positions(OperationsOfCall) :
     OperationsOfCall[i].destinationPartials \in TipsOfCall..(2 * TipsOfCall - 2)}

UpperOperations ==
  {i \in Positions(OperationsOfCall) :
     OperationsOfCall[i].destinationPartials >= 2 * TipsOfCall - 1}

ScaleWrites(S) == {OperationsOfCall[i].destinationScaleWrite : i \in S}

\* C39: on a tree of T tips with 2T-1 nodes, the internal ones indexed
\* T .. 2T-2, LogLikelihood and BranchGradient under rescaling write the
\* scale buffers dest - T + 1 in 1 .. T-1 for the lower and
\* node + 1 + (T-1) in T .. 3T-3 for the upper partials, two disjoint sets
\* inside the 3T-2 scale buffers of CreateInstance that leave out buffer 0,
\* the accumulation buffer; every partials destination is below T + (3T-3)
\* and every matrix and derivative-matrix index below 2(2T-1).
C39_IndicesInsideInstance ==
  LikelihoodReturned =>
    /\ BranchLengthsSize(result.value.tree) = 2 * TipsOfCall - 1
    /\ InstanceOfCall.tip_count = TipsOfCall
    /\ InstanceOfCall.scale_buffer_count = 3 * TipsOfCall - 2
    /\ LowerOperations \cup UpperOperations = Positions(OperationsOfCall)
    /\ Cardinality(LowerOperations) = TipsOfCall - 1
    /\ result.value.out.rescaling =>
         /\ result.value.out.cumulative_scale_index = 0
         /\ \A i \in LowerOperations :
              /\ OperationsOfCall[i].destinationScaleWrite
                   = OperationsOfCall[i].destinationPartials - TipsOfCall + 1
              /\ OperationsOfCall[i].destinationScaleWrite \in 1..(TipsOfCall - 1)
         /\ \A i \in UpperOperations :
              /\ OperationsOfCall[i].destinationScaleWrite
                   = (OperationsOfCall[i].destinationPartials - (2 * TipsOfCall - 1))
                     + 1 + (TipsOfCall - 1)
              /\ OperationsOfCall[i].destinationScaleWrite
                   \in TipsOfCall..(3 * TipsOfCall - 3)
         /\ ScaleWrites(LowerOperations) \cap ScaleWrites(UpperOperations) = {}
         /\ \A i \in Positions(OperationsOfCall) :
              /\ OperationsOfCall[i].destinationScaleWrite # 0
              /\ OperationsOfCall[i].destinationScaleWrite
                   \in 0..(InstanceOfCall.scale_buffer_count - 1)
    /\ \A i \in Positions(OperationsOfCall) :
         /\ OperationsOfCall[i].destinationPartials >= TipsOfCall
         /\ OperationsOfCall[i].destinationPartials
              < TipsOfCall + InstanceOfCall.partials_buffer_count
    /\ InstanceOfCall.partials_buffer_count = 3 * TipsOfCall - 3
    /\ InstanceOfCall.matrix_buffer_count = 2 * (2 * TipsOfCall - 1)
    /\ \A k \in DOMAIN result.value.out.node_indices :
         result.value.out.node_indices[k] \in 0..(InstanceOfCall.matrix_buffer_count - 1)
    /\ \A k \in DOMAIN result.value.out.gradient_indices :
         result.value.out.gradient_indices[k]
           \in (2 * TipsOfCall - 1)..(InstanceOfCall.matrix_buffer_count - 1)
    /\ \A k \in DOMAIN result.value.out.edges :
         result.value.out.edges[k].node_deriv_index
           \in (2 * TipsOfCall - 1)..(InstanceOfCall.matrix_buffer_count - 1)

C39_Witness ==
  /\ result.call = "BranchGradient" /\ result.value.out.rescaling
  /\ TipsOfCall >= 4
  /\ TipsOfCall - 1 \in ScaleWrites(LowerOperations)
  /\ TipsOfCall \in ScaleWrites(UpperOperations)
  /\ 3 * TipsOfCall - 3 \in ScaleWrites(UpperOperations)

====
